---- MODULE Spec2Model ----
(***************************************************************************)
(* A model of pyformlang's context free grammars (pyformlang/cfg/cfg.py)   *)
(* and recursive automata (pyformlang/rsa/recursive_automaton.py).         *)
(*                                                                         *)
(* A grammar object is a record of its fields.  Python lists are           *)
(* sequences, Python sets are sets; where the code iterates over a set,    *)
(* the model iterates over SetToSeq of it.  List positions are 1-based     *)
(* here and 0-based in the code.                                           *)
(***************************************************************************)
EXTENDS Integers, Sequences, FiniteSets, TLC

(***************************************************************************)
(* Bounds of the model.                                                    *)
(***************************************************************************)
\* the number of productions of the grammars under test
MaxProds == 3
\* the number of productions of the first operand of union, concatenate and
\* intersection
MaxOperandProds == 2
\* the length of the words asked of contains, and the max_length of get_words
MaxWordLen == 3
\* the recursion depth up to which a call of to_normal_form is followed
MaxRounds == 4

\* the boxes given to the constructor of a recursive automaton: at most
MaxBoxes == 2
MaxPasses == 7
MaxYielded == 6

(***************************************************************************)
(* Symbols: variable.py, terminal.py, epsilon.py, production.py            *)
(***************************************************************************)
Variable(value) == <<"V", value>>
Terminal(value) == <<"T", value>>
Epsilon == <<"E", "epsilon">>
None == <<"N", "None">>

isVariable(obj) == obj[1] = "V"
isTerminal(obj) == obj[1] = "T"

\* Production(head, body, filtering=False): the body is kept verbatim
ProductionUnfiltered(head, body) == [head |-> head, body |-> body]

\* Production(head, body): Epsilon is stripped from the body
Production(head, body) ==
    [head |-> head, body |-> SelectSeq(body, LAMBDA x : x # Epsilon)]

(***************************************************************************)
(* Python containers                                                       *)
(***************************************************************************)
Range(seq) == {seq[i] : i \in 1..Len(seq)}

\* the order in which Python iterates over a set: some fixed order
RECURSIVE SetToSeq(_)
SetToSeq(S) ==
    IF S = {} THEN <<>>
    ELSE LET x == CHOOSE y \in S : TRUE IN <<x>> \o SetToSeq(S \ {x})

\* list(x) / iteration over x, for x a list or a set
RECURSIVE Concat(_)
Concat(seqs) ==
    IF seqs = <<>> THEN <<>> ELSE Head(seqs) \o Concat(Tail(seqs))

\* seq with f applied to each element
Map(seq, f(_)) == [i \in 1..Len(seq) |-> f(seq[i])]

\* utils_cfg.get_productions_d(productions).get(head, [])
get_productions_d(productions, head) ==
    SelectSeq(productions, LAMBDA p : p.head = head)

(***************************************************************************)
(* CFG.__init__                                                            *)
(***************************************************************************)
\* CFG(variables, terminals, start_symbol, productions); productions is a
\* sequence (the list, or the set in iteration order, that was passed)
CFG(variables, terminals, start_symbol, productions) ==
    LET objs == UNION {Range(productions[i].body) : i \in 1..Len(productions)}
        heads == {productions[i].head : i \in 1..Len(productions)}
    IN [variables |-> variables
                      \cup (IF start_symbol # None THEN {start_symbol} ELSE {})
                      \cup heads
                      \cup {o \in objs : ~isTerminal(o)},
        terminals |-> terminals \cup {o \in objs : isTerminal(o)},
        start_symbol |-> start_symbol,
        productions |-> productions]

\* CFG()
EmptyCFG == CFG({}, {}, None, <<>>)

(***************************************************************************)
(* The fixed-point engine: impacts and remaining counters                  *)
(***************************************************************************)
\* the index, in _remaining_lists[head], of the counter of production i
index_impact(productions, i) ==
    Cardinality({j \in 1..i : /\ productions[j].head = productions[i].head
                              /\ productions[j].body # <<>>})

\* set_impacts_and_remaining_lists with one impact for each symbol of a body,
\* however often the symbol occurs in it
set_impacts_once_per_symbol(productions) ==
    LET n == Len(productions)
        withBody == {i \in 1..n : productions[i].body # <<>>}
        heads == {productions[i].head : i \in withBody}
        symbols == UNION {Range(productions[i].body) : i \in withBody}
        ofProduction(i, symbol) ==
            IF symbol \in Range(productions[i].body)
            THEN << <<productions[i].head, index_impact(productions, i)>> >>
            ELSE <<>>
    IN [added_impacts |-> {productions[i].head : i \in (1..n) \ withBody},
        remaining_lists |->
            [h \in heads |->
                LET own == SelectSeq(productions,
                               LAMBDA p : p.head = h /\ p.body # <<>>)
                IN [k \in 1..Len(own) |-> Len(own[k].body)]],
        impacts |->
            [symbol \in symbols |->
                Concat([i \in 1..n |-> ofProduction(i, symbol)])]]

\* CFG._set_impacts_and_remaining_lists: the three tables it builds
set_impacts_and_remaining_lists(productions) ==
    LET n == Len(productions)
        withBody == {i \in 1..n : productions[i].body # <<>>}
        heads == {productions[i].head : i \in withBody}
        symbols == UNION {Range(productions[i].body) : i \in withBody}
        ofProduction(i, symbol) ==
            LET body == productions[i].body
                imp == <<productions[i].head, index_impact(productions, i)>>
            IN [k \in 1..Cardinality({k \in 1..Len(body) : body[k] = symbol})
                    |-> imp]
    IN [added_impacts |-> {productions[i].head : i \in (1..n) \ withBody},
        remaining_lists |->
            [h \in heads |->
                LET own == SelectSeq(productions,
                               LAMBDA p : p.head = h /\ p.body # <<>>)
                IN [k \in 1..Len(own) |-> Len(own[k].body)]],
        impacts |->
            [symbol \in symbols |->
                Concat([i \in 1..n |-> ofProduction(i, symbol)])]]

\* self._impacts.get(current, [])
impacts_get(impacts, current) ==
    IF current \in DOMAIN impacts THEN impacts[current] ELSE <<>>

\* the body of "for symbol_impact, index_impact in self._impacts.get(...)"
\* of _get_generating_or_nullable, over the impacts still to visit
RECURSIVE for_impacts(_, _)
for_impacts(todo, st) ==
    IF todo = <<>> THEN st
    ELSE LET symbol_impact == Head(todo)[1]
             idx == Head(todo)[2]
         IN IF symbol_impact \in st.g_symbols
            THEN for_impacts(Tail(todo), st)
            ELSE LET left == st.remaining_lists[symbol_impact][idx] - 1
                     done == left = 0
                 IN for_impacts(Tail(todo),
                      [g_symbols |-> IF done
                                     THEN st.g_symbols \cup {symbol_impact}
                                     ELSE st.g_symbols,
                       to_process |-> IF done
                                      THEN Append(st.to_process, symbol_impact)
                                      ELSE st.to_process,
                       remaining_lists |->
                           [st.remaining_lists EXCEPT
                               ![symbol_impact][idx] = left],
                       processed_with_modification |->
                           Append(st.processed_with_modification,
                                  <<symbol_impact, idx>>)])

\* "while to_process: current = to_process.pop() ..."
RECURSIVE while_to_process(_, _)
while_to_process(impacts, st) ==
    IF st.to_process = <<>> THEN st
    ELSE LET n == Len(st.to_process)
             current == st.to_process[n]
         IN while_to_process(impacts,
              for_impacts(impacts_get(impacts, current),
                  [st EXCEPT !.to_process = SubSeq(st.to_process, 1, n - 1)]))

\* _get_generating_or_nullable without "# Fix modifications": the counters
\* stay as the run left them
fix_modifications_skipped(modified, remaining_lists) == remaining_lists

\* "# Fix modifications" with one increment for each counter that was
\* counted down, however often it was
fix_modifications_once_per_counter(modified, remaining_lists) ==
    [symbol \in DOMAIN remaining_lists |->
        [idx \in DOMAIN remaining_lists[symbol] |->
            IF <<symbol, idx>> \in Range(modified)
            THEN remaining_lists[symbol][idx] + 1
            ELSE remaining_lists[symbol][idx]]]

\* "# Fix modifications": every decrement is undone
RECURSIVE fix_modifications(_, _)
fix_modifications(modified, remaining_lists) ==
    IF modified = <<>> THEN remaining_lists
    ELSE fix_modifications(Tail(modified),
            [remaining_lists EXCEPT
                ![Head(modified)[1]][Head(modified)[2]] = @ + 1])

\* _get_generating_or_nullable without "for terminal in self._terminals":
\* the terminals are not put in the working set
run_generating_without_terminals(cfg, tables, nullable) ==
    LET seeds == SetToSeq(tables.added_impacts)
        st == while_to_process(tables.impacts,
                [g_symbols |-> {Epsilon} \cup Range(seeds),
                 to_process |-> <<Epsilon>> \o seeds,
                 remaining_lists |-> tables.remaining_lists,
                 processed_with_modification |-> <<>>])
    IN [g_symbols |-> st.g_symbols \ {Epsilon},
        remaining_lists |-> fix_modifications(st.processed_with_modification,
                                              st.remaining_lists)]

\* CFG._get_generating_or_nullable(nullable), on the tables of the grammar:
\* the symbols found and the counter table it leaves behind
run_generating_or_nullable(cfg, tables, nullable) ==
    LET seeds == SetToSeq(tables.added_impacts)
        terms == IF nullable THEN <<>> ELSE SetToSeq(cfg.terminals)
        st == while_to_process(tables.impacts,
                [g_symbols |-> {Epsilon} \cup Range(seeds) \cup Range(terms),
                 to_process |-> <<Epsilon>> \o seeds \o terms,
                 remaining_lists |-> tables.remaining_lists,
                 processed_with_modification |-> <<>>])
    IN [g_symbols |-> st.g_symbols \ {Epsilon},
        remaining_lists |-> fix_modifications(st.processed_with_modification,
                                              st.remaining_lists)]

get_generating_or_nullable(cfg, nullable) ==
    run_generating_or_nullable(cfg,
        set_impacts_and_remaining_lists(cfg.productions), nullable).g_symbols

\* CFG.get_generating_symbols
get_generating_symbols(cfg) == get_generating_or_nullable(cfg, FALSE)

\* CFG.get_nullable_symbols
get_nullable_symbols(cfg) == get_generating_or_nullable(cfg, TRUE)

\* the loops of CFG.generate_epsilon, on a private copy of the counters:
\* TRUE as soon as the start symbol is found
RECURSIVE for_impacts_epsilon(_, _, _)
for_impacts_epsilon(start_symbol, todo, st) ==
    IF todo = <<>> \/ st.found THEN st
    ELSE LET symbol_impact == Head(todo)[1]
             idx == Head(todo)[2]
         IN IF symbol_impact \in st.generate_epsilon
            THEN for_impacts_epsilon(start_symbol, Tail(todo), st)
            ELSE LET left == st.remaining_lists[symbol_impact][idx] - 1
                     done == left = 0
                     isStart == done /\ symbol_impact = start_symbol
                 IN for_impacts_epsilon(start_symbol, Tail(todo),
                      [found |-> isStart,
                       generate_epsilon |->
                           IF done /\ ~isStart
                           THEN st.generate_epsilon \cup {symbol_impact}
                           ELSE st.generate_epsilon,
                       to_process |->
                           IF done /\ ~isStart
                           THEN Append(st.to_process, symbol_impact)
                           ELSE st.to_process,
                       remaining_lists |->
                           [st.remaining_lists EXCEPT
                               ![symbol_impact][idx] = left]])

RECURSIVE while_to_process_epsilon(_, _, _)
while_to_process_epsilon(start_symbol, impacts, st) ==
    IF st.found THEN TRUE
    ELSE IF st.to_process = <<>> THEN FALSE
    ELSE LET n == Len(st.to_process)
             current == st.to_process[n]
         IN while_to_process_epsilon(start_symbol, impacts,
              for_impacts_epsilon(start_symbol,
                  impacts_get(impacts, current),
                  [st EXCEPT !.to_process = SubSeq(st.to_process, 1, n - 1)]))

\* CFG.generate_epsilon after self._set_impacts_and_remaining_lists(), on
\* the tables of the grammar
run_generate_epsilon(cfg, tables) ==
    LET seeds == SetToSeq(tables.added_impacts)
    IN IF cfg.start_symbol \in tables.added_impacts THEN TRUE
       ELSE while_to_process_epsilon(cfg.start_symbol, tables.impacts,
              [found |-> FALSE,
               generate_epsilon |-> {Epsilon} \cup Range(seeds),
               to_process |-> <<Epsilon>> \o seeds,
               remaining_lists |-> tables.remaining_lists])

\* CFG.generate_epsilon
generate_epsilon(cfg) ==
    run_generate_epsilon(cfg, set_impacts_and_remaining_lists(cfg.productions))

\* CFG.get_reachable_symbols
RECURSIVE reach_from(_, _, _)
reach_from(productions, r_symbols, to_process) ==
    IF to_process = <<>> THEN r_symbols
    ELSE LET n == Len(to_process)
             current == to_process[n]
             next == UNION {Range(productions[i].body) \ {Epsilon} :
                            i \in {j \in 1..Len(productions) :
                                       productions[j].head = current}}
             new == SetToSeq(next \ r_symbols)
         IN reach_from(productions, r_symbols \cup next,
                       SubSeq(to_process, 1, n - 1) \o new)

get_reachable_symbols(cfg) ==
    reach_from(cfg.productions, {cfg.start_symbol}, <<cfg.start_symbol>>)


(***************************************************************************)
(* The normal-form pipeline                                                *)
(***************************************************************************)
\* CFG.remove_useless_symbols from "reachables = cfg_temp.get_reachable_symbols()"
\* on: the symbols and productions of cfg_temp that are reachable
remove_unreachable_symbols(new_var, new_ter, start_symbol, productions, reachables) ==
    CFG(new_var \cap reachables, new_ter \cap reachables, start_symbol,
        SelectSeq(productions, LAMBDA x : x.head \in reachables))

\* CFG.remove_useless_symbols from "productions = [...]" on, generating
\* being what self.get_generating_symbols() returned
remove_non_generating_symbols(cfg, generating) ==
    LET productions == SelectSeq(cfg.productions,
            LAMBDA x : /\ x.head \in generating
                       /\ \A k \in 1..Len(x.body) : x.body[k] \in generating)
        new_var == cfg.variables \cap generating
        new_ter == cfg.terminals \cap generating
        cfg_temp == CFG(new_var, new_ter, cfg.start_symbol, productions)
    IN remove_unreachable_symbols(new_var, new_ter, cfg.start_symbol,
           productions, get_reachable_symbols(cfg_temp))

\* CFG.remove_useless_symbols
remove_useless_symbols(cfg) ==
    remove_non_generating_symbols(cfg, get_generating_symbols(cfg))

\* utils_cfg.remove_nullable_production_sub(body, nullables): the bodies got
\* by keeping or dropping each occurrence of a nullable symbol
RECURSIVE remove_nullable_production_sub(_, _)
remove_nullable_production_sub(body, nullables) ==
    IF body = <<>> THEN << <<>> >>
    ELSE LET all_next == remove_nullable_production_sub(Tail(body), nullables)
             first == Head(body)
             both(body_temp) ==
                 (IF first \in nullables THEN <<body_temp>> ELSE <<>>)
                 \o (IF first # Epsilon THEN << <<first>> \o body_temp >>
                     ELSE <<>>)
         IN Concat([i \in 1..Len(all_next) |-> both(all_next[i])])

\* utils_cfg.remove_nullable_production(production, nullables): called with
\* the production and the nullable symbols alone, it drops the choice that
\* leaves nothing
remove_nullable_production(production, nullables) ==
    LET next_prod_l == remove_nullable_production_sub(production.body,
                                                      nullables)
        kept == SelectSeq(next_prod_l, LAMBDA prod_l : prod_l # <<>>)
    IN [i \in 1..Len(kept) |-> Production(production.head, kept[i])]

\* CFG.remove_epsilon
remove_epsilon(cfg) ==
    LET nullables == get_nullable_symbols(cfg)
        new_productions ==
            Concat([i \in 1..Len(cfg.productions) |->
                       remove_nullable_production(cfg.productions[i],
                                                  nullables)])
    IN CFG(cfg.variables, cfg.terminals, cfg.start_symbol, new_productions)

isUnit(x) == Len(x.body) = 1 /\ isVariable(x.body[1])

\* CFG.get_unit_pairs
RECURSIVE unit_pairs_from(_, _, _)
unit_pairs_from(productions, unit_pairs, to_process) ==
    IF to_process = <<>> THEN unit_pairs
    ELSE LET n == Len(to_process)
             var_a == to_process[n][1]
             var_b == to_process[n][2]
             own == get_productions_d(productions, var_b)
             temps == {<<var_a, own[i].body[1]>> : i \in 1..Len(own)}
         IN unit_pairs_from(productions, unit_pairs \cup temps,
                SubSeq(to_process, 1, n - 1)
                \o SetToSeq(temps \ unit_pairs))

\* get_unit_pairs without the loop "while to_process": the identity pairs
\* and the pairs of the unit productions themselves
get_unit_pairs_direct(cfg) ==
    {<<v, v>> : v \in cfg.variables}
    \cup {<<p.head, p.body[1]>> : p \in {q \in Range(cfg.productions) :
                                            isUnit(q)}}

get_unit_pairs(cfg) ==
    LET unit_pairs == {<<v, v>> : v \in cfg.variables}
    IN unit_pairs_from(SelectSeq(cfg.productions, isUnit),
                       unit_pairs, SetToSeq(unit_pairs))

\* CFG.eliminate_unit_productions
eliminate_unit_productions(cfg) ==
    LET unit_pairs == SetToSeq(get_unit_pairs(cfg))
        productions == SelectSeq(cfg.productions, LAMBDA x : ~isUnit(x))
        added(pair) ==
            LET own == get_productions_d(productions, pair[2])
            IN [i \in 1..Len(own) |->
                   ProductionUnfiltered(pair[1], own[i].body)]
    IN CFG(cfg.variables, cfg.terminals, cfg.start_symbol,
           productions
           \o Concat([i \in 1..Len(unit_pairs) |-> added(unit_pairs[i])]))

\* Variable(str(terminal.value) + "#CNF#")
term_to_var(terminal) == Variable(terminal[2] \o "#CNF#")

\* get_productions_with_only_single_terminals without the test
\* "if len(production.body) == 1": terminals are replaced in every body
get_productions_with_terminals_replaced(cfg) ==
    LET used == UNION {Range(cfg.productions[i].body) \cap cfg.terminals :
                       i \in 1..Len(cfg.productions)}
        replaced(x) ==
            Production(x.head,
                [k \in 1..Len(x.body) |->
                    IF x.body[k] \in cfg.terminals
                    THEN term_to_var(x.body[k]) ELSE x.body[k]])
        of_used == SetToSeq(used)
    IN [i \in 1..Len(cfg.productions) |-> replaced(cfg.productions[i])]
       \o [i \in 1..Len(of_used) |->
              Production(term_to_var(of_used[i]), <<of_used[i]>>)]

\* CFG._get_productions_with_only_single_terminals
get_productions_with_only_single_terminals(cfg) ==
    LET long == SelectSeq(cfg.productions, LAMBDA x : Len(x.body) # 1)
        used == UNION {Range(long[i].body) \cap cfg.terminals :
                       i \in 1..Len(long)}
        replaced(x) ==
            IF Len(x.body) = 1 THEN x
            ELSE Production(x.head,
                     [k \in 1..Len(x.body) |->
                         IF x.body[k] \in cfg.terminals
                         THEN term_to_var(x.body[k]) ELSE x.body[k]])
        of_used == SetToSeq(used)
    IN [i \in 1..Len(cfg.productions) |-> replaced(cfg.productions[i])]
       \o [i \in 1..Len(of_used) |->
              Production(term_to_var(of_used[i]), <<of_used[i]>>)]

\* CFG._get_next_free_variable(idx, prefix): <<idx, variable>>
RECURSIVE get_next_free_variable(_, _, _)
get_next_free_variable(cfg, idx, prefix) ==
    LET temp == Variable(prefix \o ToString(idx + 1))
    IN IF temp \in cfg.variables
       THEN get_next_free_variable(cfg, idx + 1, prefix)
       ELSE <<idx + 1, temp>>

\* "for _ in range(len(body) - 2): idx, var = ..." of _decompose_productions:
\* <<idx, new_var>>
RECURSIVE new_variables(_, _, _)
new_variables(cfg, idx, count) ==
    IF count = 0 THEN <<idx, <<>> >>
    ELSE LET nxt == get_next_free_variable(cfg, idx, "C#CNF#")
             rest == new_variables(cfg, nxt[1], count - 1)
         IN <<rest[1], <<nxt[2]>> \o rest[2]>>

\* "for i in range(len(body) - 2): ..." of _decompose_productions, from
\* position i (1-based) on: the productions added and the suffixes done
RECURSIVE decompose_body(_, _, _, _, _)
decompose_body(body, new_var, head, i, done) ==
    IF i > Len(body) - 2
    THEN [productions |->
              <<Production(head, <<body[Len(body) - 1], body[Len(body)]>>)>>,
          done |-> done]
    ELSE LET temp == SubSeq(body, i + 1, Len(body))
         IN IF temp \in DOMAIN done
            THEN [productions |-> <<Production(head, <<body[i], done[temp]>>)>>,
                  done |-> done]
            ELSE LET rest == decompose_body(body, new_var, new_var[i], i + 1,
                                 [t \in DOMAIN done \cup {temp} |->
                                     IF t = temp THEN new_var[i] ELSE done[t]])
                 IN [productions |->
                         <<Production(head, <<body[i], new_var[i]>>)>>
                         \o rest.productions,
                     done |-> rest.done]

\* CFG._decompose_productions, over the productions still to visit
RECURSIVE decompose_from(_, _, _, _)
decompose_from(cfg, productions, idx, done) ==
    IF productions = <<>> THEN <<>>
    ELSE LET production == Head(productions)
             body == production.body
         IN IF Len(body) <= 2
            THEN <<production>>
                 \o decompose_from(cfg, Tail(productions), idx, done)
            ELSE LET vars == new_variables(cfg, idx, Len(body) - 2)
                     one == decompose_body(body, vars[2], production.head, 1,
                                           done)
                 IN one.productions
                    \o decompose_from(cfg, Tail(productions), vars[1],
                                      one.done)

decompose_productions(cfg, productions) ==
    decompose_from(cfg, productions, 0, <<>>)

\* the test of to_normal_form: the grammar is not yet in canonical shape
not_canonical(cfg) ==
    \/ Cardinality(get_nullable_symbols(cfg)) # 0
    \/ Cardinality(get_unit_pairs(cfg)) # Cardinality(cfg.variables)
    \/ Cardinality(get_generating_symbols(cfg))
         # Cardinality(cfg.variables) + Cardinality(cfg.terminals)
    \/ Cardinality(get_reachable_symbols(cfg))
         # Cardinality(cfg.variables) + Cardinality(cfg.terminals)

\* one round of to_normal_form that keeps an empty production at the start
\* symbol when the start symbol is nullable
normal_form_round_keeping_start(cfg) ==
    LET new_cfg == remove_useless_symbols(
                       eliminate_unit_productions(
                           remove_useless_symbols(
                               remove_epsilon(
                                   remove_useless_symbols(cfg)))))
    IN IF cfg.start_symbol \in get_nullable_symbols(cfg)
       THEN CFG(new_cfg.variables, new_cfg.terminals, new_cfg.start_symbol,
                Append(new_cfg.productions, Production(cfg.start_symbol, <<>>)))
       ELSE new_cfg

\* one round of to_normal_form
normal_form_round(cfg) ==
    remove_useless_symbols(
        eliminate_unit_productions(
            remove_useless_symbols(
                remove_epsilon(
                    remove_useless_symbols(cfg)))))

\* to_normal_form on a grammar in canonical shape: "# Remove terminals
\* from body" and what follows
normal_form_of_canonical(cfg) ==
    LET new_productions ==
            decompose_productions(cfg,
                get_productions_with_only_single_terminals(cfg))
    IN CFG({}, {}, cfg.start_symbol, SetToSeq(Range(new_productions)))

\* CFG.to_normal_form
RECURSIVE to_normal_form(_)
to_normal_form(cfg) ==
    IF not_canonical(cfg)
    THEN IF Len(cfg.productions) = 0 THEN cfg
         ELSE to_normal_form(normal_form_round(cfg))
    ELSE normal_form_of_canonical(cfg)


(***************************************************************************)
(* The CYK recognizer (cyk_table.py) and membership                        *)
(***************************************************************************)
\* The cells of the CYK table for the lengths 1..l, as triples
\* <<i, length, variable>>: the variable derives word[i..i+length-1]
RECURSIVE cyk_cells(_, _, _)
cyk_cells(cnf, word, l) ==
    IF l = 0 THEN {}
    ELSE LET below == cyk_cells(cnf, word, l - 1)
             P == Range(cnf.productions)
             fills(q, i) ==
                 IF l = 1
                 THEN Len(q.body) = 1 /\ q.body[1] = word[i]
                 ELSE /\ Len(q.body) = 2
                      /\ \E k \in 1..(l - 1) :
                            /\ <<i, k, q.body[1]>> \in below
                            /\ <<i + k, l - k, q.body[2]>> \in below
             cell(i) == {<<i, l, q.head>> : q \in {p \in P : fills(p, i)}}
         IN below \cup UNION {cell(i) : i \in 1..(Len(word) - l + 1)}

\* CYKTable(cnf, word).generate_word() for a word of length >= 1
cyk_generate_word(cnf, word) ==
    <<1, Len(word), cnf.start_symbol>> \in cyk_cells(cnf, word, Len(word))

\* CFG.contains, normal_form being what cfg.to_normal_form() returns to
\* CYKTable: the grammar computes it once and keeps it in _normal_form
contains_with(cfg, normal_form, word) ==
    LET w == SelectSeq(word, LAMBDA x : x # Epsilon)
    IN IF w = <<>> THEN generate_epsilon(cfg)
       ELSE cyk_generate_word(normal_form, w)

\* CFG.contains
contains(cfg, word) == contains_with(cfg, to_normal_form(cfg), word)


(***************************************************************************)
(* Grammar algebra                                                         *)
(***************************************************************************)
\* the position of x in seq (x occurs once)
IndexOf(seq, x) == CHOOSE i \in 1..Len(seq) : seq[i] = x

\* subs_variables_d without the index: the renamed variables of two
\* grammars collide
subs_variables_d_untagged(variables, first_idx) ==
    [variable \in variables |-> Variable(variable[2] \o "#SUBS#")]

\* "for variable in variables: temp = Variable(variable.value + SUBS_SUFFIX
\* + str(idx)); d[variable] = temp; idx += 1", idx starting at first_idx
subs_variables_d(variables, first_idx) ==
    LET order == SetToSeq(variables)
    IN [variable \in variables |->
           Variable(variable[2] \o "#SUBS#"
                    \o ToString(first_idx + IndexOf(order, variable) - 1))]

\* the body of a production with the variables of d renamed, and the
\* terminals of final_replacement replaced
subs_body(body, d, final_replacement) ==
    [k \in 1..Len(body) |->
        IF body[k] \in DOMAIN d THEN d[body[k]]
        ELSE IF body[k] \in DOMAIN final_replacement
             THEN final_replacement[body[k]]
             ELSE body[k]]

\* "for ter, cfg in substitution.items(): ..." of CFG.substitute, over the
\* items still to visit
RECURSIVE subs_items(_, _)
subs_items(items, idx) ==
    IF items = <<>>
    THEN [new_vars |-> {}, productions |-> <<>>, final_replacement |-> <<>>]
    ELSE LET ter == Head(items)[1]
             g == Head(items)[2]
             new_variables_d_local == subs_variables_d(g.variables, idx)
             rest == subs_items(Tail(items), idx + Cardinality(g.variables))
             own == [i \in 1..Len(g.productions) |->
                        Production(
                            new_variables_d_local[g.productions[i].head],
                            subs_body(g.productions[i].body,
                                      new_variables_d_local, <<>>))]
         IN [new_vars |-> {new_variables_d_local[v] : v \in g.variables}
                          \cup rest.new_vars,
             productions |-> own \o rest.productions,
             final_replacement |->
                 [t \in {ter} \cup DOMAIN rest.final_replacement |->
                     IF t \in DOMAIN rest.final_replacement
                     THEN rest.final_replacement[t]
                     ELSE new_variables_d_local[g.start_symbol]]]

\* CFG.substitute; substitution is the sequence of the items <<ter, cfg>>
substitute(host, substitution) ==
    LET new_variables_d == subs_variables_d(host.variables, 0)
        subs == subs_items(substitution, Cardinality(host.variables))
        own == [i \in 1..Len(host.productions) |->
                   Production(new_variables_d[host.productions[i].head],
                              subs_body(host.productions[i].body,
                                        new_variables_d,
                                        subs.final_replacement))]
    IN CFG({new_variables_d[v] : v \in host.variables} \cup subs.new_vars,
           {}, new_variables_d[host.start_symbol],
           SetToSeq(Range(subs.productions \o own)))

\* substitute with "terminals = self._terminals" and an update in place:
\* the terminals of the substituted grammars land in self._terminals
subs_terminals_in_place(host, substitution) ==
    LET all == host.terminals
               \cup UNION {substitution[i][2].terminals :
                           i \in 1..Len(substitution)}
    IN [terminals |-> all, self_terminals |-> all]

\* "terminals = self._terminals.copy()" and, for each item, "terminals =
\* terminals.union(cfg.terminals)" of CFG.substitute: the local set at the
\* end, and self._terminals, which the copy keeps apart from it
subs_terminals(host, substitution) ==
    [terminals |-> host.terminals
                   \cup UNION {substitution[i][2].terminals :
                               i \in 1..Len(substitution)},
     self_terminals |-> host.terminals]

\* CFG.get_closure
get_closure(self) ==
    LET start_temp == Variable("#STARTCLOS#")
        temp_1 == Terminal("#1CLOS#")
        cfg_temp == CFG({start_temp}, {temp_1}, start_temp,
                        SetToSeq({Production(start_temp, <<temp_1>>),
                                  Production(start_temp,
                                             <<start_temp, start_temp>>),
                                  Production(start_temp, <<>>)}))
    IN substitute(cfg_temp, << <<temp_1, self>> >>)

\* body[::-1]
body_reversed(body) == [k \in 1..Len(body) |-> body[Len(body) + 1 - k]]

\* CFG.reverse
reverse(self) ==
    CFG(self.variables, self.terminals, self.start_symbol,
        [i \in 1..Len(self.productions) |->
            Production(self.productions[i].head,
                       body_reversed(self.productions[i].body))])

\* CFG.union
union(self, other) ==
    LET start_temp == Variable("#STARTUNION#")
        temp_0 == Terminal("#0UNION#")
        temp_1 == Terminal("#1UNION#")
        cfg_temp == CFG({start_temp}, {temp_0, temp_1}, start_temp,
                        SetToSeq({Production(start_temp, <<temp_0>>),
                                  Production(start_temp, <<temp_1>>)}))
    IN substitute(cfg_temp, << <<temp_0, self>>, <<temp_1, other>> >>)

\* concatenate with the two operands exchanged
concatenate_swapped(self, other) ==
    LET start_temp == Variable("#STARTCONC#")
        temp_0 == Terminal("#0CONC#")
        temp_1 == Terminal("#1CONC#")
        cfg_temp == CFG({start_temp}, {temp_0, temp_1}, start_temp,
                        <<Production(start_temp, <<temp_0, temp_1>>)>>)
    IN substitute(cfg_temp, << <<temp_0, other>>, <<temp_1, self>> >>)

\* CFG.concatenate
concatenate(self, other) ==
    LET start_temp == Variable("#STARTCONC#")
        temp_0 == Terminal("#0CONC#")
        temp_1 == Terminal("#1CONC#")
        cfg_temp == CFG({start_temp}, {temp_0, temp_1}, start_temp,
                        <<Production(start_temp, <<temp_0, temp_1>>)>>)
    IN substitute(cfg_temp, << <<temp_0, self>>, <<temp_1, other>> >>)


(***************************************************************************)
(* Intersection with a deterministic finite automaton                      *)
(***************************************************************************)
\* The automaton is a record [states, start_state, final_states, delta],
\* delta a function on some pairs <<state, symbol value>>.

\* other(state, value): the list of the next states
dfa_call(other, state, value) ==
    IF <<state, value>> \in DOMAIN other.delta
    THEN <<other.delta[<<state, value>>]>> ELSE <<>>

\* the state the word leads to, a list of at most one state
RECURSIVE dfa_run(_, _, _)
dfa_run(other, state, word) ==
    IF word = <<>> THEN <<state>>
    ELSE LET next_states == dfa_call(other, state, Head(word)[2])
         IN IF next_states = <<>> THEN <<>>
            ELSE dfa_run(other, next_states[1], Tail(word))

\* other.accepts(word)
dfa_accepts(other, word) ==
    LET last == dfa_run(other, other.start_state, word)
    IN last # <<>> /\ last[1] \in other.final_states

RECURSIVE dfa_reachable(_, _)
dfa_reachable(other, seen) ==
    LET next == seen \cup {other.delta[x] :
                              x \in {y \in DOMAIN other.delta : y[1] \in seen}}
    IN IF next = seen THEN seen ELSE dfa_reachable(other, next)

\* other.is_empty()
dfa_is_empty(other) ==
    dfa_reachable(other, {other.start_state}) \cap other.final_states = {}

\* CFGVariableConverter.to_cfg_combined_variable(state_p, variable, state_r)
to_cfg_combined_variable(state_p, variable, state_r) ==
    Variable("(" \o ToString(state_p) \o "," \o variable[2] \o ","
             \o ToString(state_r) \o ")")

\* intersection_starting_rules with a rule for every state, final or not
intersection_starting_rules_all_states(cnf, other) ==
    LET finals == SetToSeq(other.states)
    IN [i \in 1..Len(finals) |->
           ProductionUnfiltered(Variable("Start"),
               <<to_cfg_combined_variable(other.start_state,
                                          cnf.start_symbol, finals[i])>>)]

\* CFG._intersection_starting_rules
intersection_starting_rules(cnf, other) ==
    LET finals == SetToSeq(other.final_states)
    IN [i \in 1..Len(finals) |->
           ProductionUnfiltered(Variable("Start"),
               <<to_cfg_combined_variable(other.start_state,
                                          cnf.start_symbol, finals[i])>>)]

\* CFG._intersection_when_terminal
intersection_when_terminal(other, production, states) ==
    LET with_next == SelectSeq(states,
            LAMBDA state_p :
                dfa_call(other, state_p, production.body[1][2]) # <<>>)
    IN [i \in 1..Len(with_next) |->
           ProductionUnfiltered(
               to_cfg_combined_variable(with_next[i], production.head,
                   dfa_call(other, with_next[i], production.body[1][2])[1]),
               <<production.body[1]>>)]

\* CFG._get_all_bodies
get_all_bodies(production, state_p, state_r, states) ==
    [i \in 1..Len(states) |->
        <<to_cfg_combined_variable(state_p, production.body[1], states[i]),
          to_cfg_combined_variable(states[i], production.body[2], state_r)>>]

\* CFG._intersection_when_two_non_terminals
intersection_when_two_non_terminals(production, states) ==
    LET of(state_p, state_r) ==
            LET bodies == get_all_bodies(production, state_p, state_r, states)
            IN [i \in 1..Len(bodies) |->
                   ProductionUnfiltered(
                       to_cfg_combined_variable(state_p, production.head,
                                                state_r),
                       bodies[i])]
    IN Concat([i \in 1..Len(states) |->
                  Concat([j \in 1..Len(states) |->
                             of(states[i], states[j])])])

\* CFG.intersection from "states = list(other.states)" on, cnf being
\* self.to_normal_form() and generate_empty what was found for the empty word
intersection_of_normal_form(cnf, other, generate_empty) ==
    LET states == SetToSeq(other.states)
        of(production) ==
            IF Len(production.body) = 2
            THEN intersection_when_two_non_terminals(production, states)
            ELSE intersection_when_terminal(other, production, states)
        new_productions ==
            Concat([i \in 1..Len(cnf.productions) |->
                       of(cnf.productions[i])])
            \o intersection_starting_rules(cnf, other)
            \o (IF generate_empty
                THEN <<Production(Variable("Start"), <<>>)>> ELSE <<>>)
    IN CFG({}, {}, Variable("Start"), new_productions)

\* CFG.intersection, with a deterministic automaton
intersection(self, other) ==
    IF dfa_is_empty(other) THEN EmptyCFG
    ELSE intersection_of_normal_form(to_normal_form(self), other,
             contains(self, <<>>) /\ dfa_accepts(other, <<>>))

(***************************************************************************)
(* Enumeration of the words, and finiteness                                *)
(***************************************************************************)
\* "if new_word not in l: l.append(new_word)" for each candidate in turn:
\* the list, and the words that were appended
RECURSIVE append_new(_, _, _)
append_new(list, added, candidates) ==
    IF candidates = <<>> THEN <<list, added>>
    ELSE IF \E i \in 1..Len(list) : list[i] = Head(candidates)
         THEN append_new(list, added, Tail(candidates))
         ELSE append_new(Append(list, Head(candidates)),
                         Append(added, Head(candidates)), Tail(candidates))

\* gen_d[key] with l appended to its last list
append_to_last(gen_d, key, list) ==
    [gen_d EXCEPT ![key] = [@ EXCEPT ![Len(@)] = list]]

\* "# Look for Epsilon Transitions"
get_words_init(productions) ==
    LET n == Len(productions)
        keys == {productions[i].head : i \in 1..n}
                \cup UNION {Range(productions[i].body) :
                            i \in {j \in 1..n : Len(productions[j].body) = 2}}
    IN [key \in keys |-> << <<>> >>]

\* "# To a single terminal", over the productions still to visit
RECURSIVE get_words_single(_, _, _)
get_words_single(todo, start_symbol, st) ==
    IF todo = <<>> THEN st
    ELSE LET production == Head(todo)
             head == production.head
             body == production.body
         IN IF Len(body) # 1
            THEN get_words_single(Tail(todo), start_symbol, st)
            ELSE LET padded == IF Len(st.gen_d[head]) = 1
                               THEN [st.gen_d EXCEPT ![head] = Append(@, <<>>)]
                               ELSE st.gen_d
                     last == padded[head][Len(padded[head])]
                     res == append_new(last, <<>>, <<body>>)
                 IN get_words_single(Tail(todo), start_symbol,
                      [gen_d |-> append_to_last(padded, head, res[1]),
                       yielded |-> IF head = start_symbol
                                   THEN st.yielded \o res[2]
                                   ELSE st.yielded,
                       was_modified |-> FALSE])

\* left + right for every left of length i and right of length
\* current_length - i, in the order of the three loops
get_words_candidates(gen_d, body, current_length) ==
    Concat([i \in 1..(current_length - 1) |->
        LET lefts == gen_d[body[1]][i + 1]
            rights == gen_d[body[2]][current_length - i + 1]
        IN Concat([l \in 1..Len(lefts) |->
                      [r \in 1..Len(rights) |-> lefts[l] \o rights[r]]])])

\* "for production in productions: ..." of the main loop of get_words
RECURSIVE get_words_productions(_, _, _, _)
get_words_productions(todo, start_symbol, current_length, st) ==
    IF todo = <<>> THEN st
    ELSE LET production == Head(todo)
             head == production.head
             body == production.body
             padded == IF Len(st.gen_d[head]) # current_length + 1
                       THEN [st.gen_d EXCEPT ![head] = Append(@, <<>>)]
                       ELSE st.gen_d
         IN IF Len(body) # 2
            THEN get_words_productions(Tail(todo), start_symbol,
                     current_length, [st EXCEPT !.gen_d = padded])
            ELSE LET last == padded[head][Len(padded[head])]
                     res == append_new(last, <<>>,
                                get_words_candidates(padded, body,
                                                     current_length))
                 IN get_words_productions(Tail(todo), start_symbol,
                      current_length,
                      [gen_d |-> append_to_last(padded, head, res[1]),
                       yielded |-> IF head = start_symbol
                                   THEN st.yielded \o res[2]
                                   ELSE st.yielded,
                       was_modified |-> st.was_modified \/ res[2] # <<>>])

\* "while current_length <= max_length or max_length == -1: ..."
RECURSIVE get_words_while(_, _, _, _, _, _)
get_words_while(productions, start_symbol, max_length, current_length, total_no_modification, st) ==
    IF ~(current_length <= max_length \/ max_length = -1) THEN st.yielded
    ELSE LET padded ==
                 [key \in DOMAIN st.gen_d |->
                     IF Len(st.gen_d[key]) # current_length
                     THEN Append(st.gen_d[key], <<>>) ELSE st.gen_d[key]]
             after == get_words_productions(productions, start_symbol,
                          current_length,
                          [gen_d |-> padded, yielded |-> st.yielded,
                           was_modified |-> FALSE])
             total == IF after.was_modified THEN 0
                      ELSE total_no_modification + 1
         IN IF 2 * total > current_length + 1 THEN after.yielded
            ELSE get_words_while(productions, start_symbol, max_length,
                                 current_length + 1, total, after)

\* CFG.get_words from "productions = cfg.productions" on: the words of
\* the normal form cfg, after the empty word when nullables yielded it
get_words_of_productions(productions, start_symbol, max_length, first) ==
    get_words_while(productions, start_symbol, max_length, 2, 0,
        get_words_single(productions, start_symbol,
            [gen_d |-> get_words_init(productions),
             yielded |-> first, was_modified |-> FALSE]))

get_words_of_normal_form(cfg, max_length, first) ==
    get_words_of_productions(cfg.productions, cfg.start_symbol, max_length,
                             first)

\* CFG.get_words(max_length): the words it yields, in order
get_words(cfg, max_length) ==
    LET first == IF cfg.start_symbol \in get_nullable_symbols(cfg)
                 THEN << <<>> >> ELSE <<>>
    IN IF max_length = 0 THEN first
       ELSE get_words_of_normal_form(to_normal_form(cfg), max_length, first)

\* The generator get_words(max_length) between two passes of its loop: its
\* local variables, the words yielded so far, and whether it has returned
get_words_frame(productions, start_symbol, max_length, st) ==
    [productions |-> productions, start_symbol |-> start_symbol,
     max_length |-> max_length, current_length |-> 2,
     total_no_modification |-> 0, gen_d |-> st.gen_d,
     yielded |-> st.yielded, returned |-> FALSE]

\* the generator that has returned at "if max_length == 0: return"
get_words_returned(start_symbol, max_length, first) ==
    [productions |-> <<>>, start_symbol |-> start_symbol,
     max_length |-> max_length, current_length |-> 2,
     total_no_modification |-> 0, gen_d |-> <<>>,
     yielded |-> first, returned |-> TRUE]

\* get_words from "productions = cfg.productions" to "total_no_modification
\* = 0", cfg being the normal form
get_words_before_while(cfg, max_length, first) ==
    get_words_frame(cfg.productions, cfg.start_symbol, max_length,
        get_words_single(cfg.productions, cfg.start_symbol,
            [gen_d |-> get_words_init(cfg.productions),
             yielded |-> first, was_modified |-> FALSE]))

\* CFG.get_words(max_length) run up to the first test of its while loop
get_words_start(cfg, max_length) ==
    LET first == IF cfg.start_symbol \in get_nullable_symbols(cfg)
                 THEN << <<>> >> ELSE <<>>
    IN IF max_length = 0
       THEN get_words_returned(cfg.start_symbol, max_length, first)
       ELSE get_words_before_while(to_normal_form(cfg), max_length, first)

\* the end of the loop body with the passes that yielded a new string
\* counted, in place of those that yielded none
get_words_after_productions_counting_progress(frame, after) ==
    LET total == IF after.was_modified THEN frame.total_no_modification + 1
                 ELSE 0
    IN [frame EXCEPT !.gen_d = after.gen_d,
                     !.yielded = after.yielded,
                     !.total_no_modification = total,
                     !.current_length = @ + 1,
                     !.returned = 2 * total > frame.current_length + 1]

\* the body of the while loop after "for production in productions", after
\* being what that loop left
get_words_after_productions(frame, after) ==
    LET total == IF after.was_modified THEN 0
                 ELSE frame.total_no_modification + 1
    IN [frame EXCEPT !.gen_d = after.gen_d,
                     !.yielded = after.yielded,
                     !.total_no_modification = total,
                     !.current_length = @ + 1,
                     !.returned = 2 * total > frame.current_length + 1]

\* the test of the while loop of get_words and one pass of its body
get_words_pass(frame) ==
    IF frame.returned THEN frame
    ELSE IF ~(frame.current_length <= frame.max_length
              \/ frame.max_length = -1)
    THEN [frame EXCEPT !.returned = TRUE]
    ELSE get_words_after_productions(frame,
             get_words_productions(frame.productions, frame.start_symbol,
                 frame.current_length,
                 [gen_d |-> [key \in DOMAIN frame.gen_d |->
                                IF Len(frame.gen_d[key]) # frame.current_length
                                THEN Append(frame.gen_d[key], <<>>)
                                ELSE frame.gen_d[key]],
                  yielded |-> frame.yielded, was_modified |-> FALSE]))

\* the generator after the given number of passes
RECURSIVE get_words_passes(_, _)
get_words_passes(frame, passes) ==
    IF passes = 0 THEN frame
    ELSE get_words_passes(get_words_pass(frame), passes - 1)

\* nx.find_cycle(di_graph) finds a cycle: some node reaches itself
RECURSIVE reaches(_, _)
reaches(edges, seen) ==
    LET next == seen \cup {e[2] : e \in {f \in edges : f[1] \in seen}}
    IN IF next = seen THEN seen ELSE reaches(edges, next)

has_cycle(edges) ==
    \E e \in edges : e[1] \in reaches(edges, {e[2]})

\* "if len(body) == 2" over normal.productions
binary_productions(normal) ==
    {p \in Range(normal.productions) : Len(p.body) = 2}

\* is_finite without the edge from the head to the second body element
is_finite_first_edge_only(cfg) ==
    LET di_graph_of(binary) == {<<p.head, p.body[1]>> : p \in binary}
    IN ~has_cycle(di_graph_of(binary_productions(to_normal_form(cfg))))

\* CFG.is_finite
is_finite(cfg) ==
    LET di_graph_of(binary) == {<<p.head, p.body[1]>> : p \in binary}
                               \cup {<<p.head, p.body[2]>> : p \in binary}
    IN ~has_cycle(di_graph_of(binary_productions(to_normal_form(cfg))))


(***************************************************************************)
(* FIRST and FOLLOW                                                        *)
(***************************************************************************)
\* A dict is a function on its keys; dict.get(key, set())
EmptyDict == [key \in {} |-> {}]

dict_get(dict, key) == IF key \in DOMAIN dict THEN dict[key] ELSE {}

\* dict[key] = value
dict_set(dict, key, value) ==
    [k \in DOMAIN dict \cup {key} |-> IF k = key THEN value ELSE dict[k]]

\* triggers.get(key, [])
triggers_get(triggers, key) ==
    IF key \in DOMAIN triggers THEN triggers[key] ELSE <<>>

\* SetQueue.append for each element of values: an element that is waiting
\* in the queue is not added again
RECURSIVE set_queue_append(_, _)
set_queue_append(to_process, values) ==
    IF values = <<>> THEN to_process
    ELSE set_queue_append(
             IF Head(values) \in Range(to_process) THEN to_process
             ELSE Append(to_process, Head(values)),
             Tail(values))

\* CFG._get_triggers: for each symbol, the heads of the productions it
\* occurs in, once for each occurrence
get_triggers(productions) ==
    LET symbols == UNION {Range(productions[i].body) :
                          i \in 1..Len(productions)}
        ofProduction(i, symbol) ==
            LET body == productions[i].body
            IN [k \in 1..Cardinality({k \in 1..Len(body) : body[k] = symbol})
                   |-> productions[i].head]
    IN [symbol \in symbols |->
           Concat([i \in 1..Len(productions) |-> ofProduction(i, symbol)])]

\* CFG._initialize_first_set
initialize_first_set(cfg, triggers) ==
    LET terminals == SetToSeq(cfg.terminals)
        empty == SelectSeq(cfg.productions, LAMBDA p : p.body = <<>>)
    IN [first_set |->
           [x \in cfg.terminals \cup Range([i \in 1..Len(empty) |->
                                               empty[i].head]) |->
               IF x \in cfg.terminals THEN {x} ELSE {Epsilon}],
        to_process |->
           set_queue_append(<<>>,
               Concat([i \in 1..Len(terminals) |->
                          triggers_get(triggers, terminals[i])])
               \o Concat([i \in 1..Len(empty) |->
                             triggers_get(triggers, empty[i].head)]))]

\* first_of_body that looks at the first body component alone
first_of_body_first_component(first_set, body) ==
    LET temp == dict_get(first_set, body[1])
    IN IF Len(body) # 1 \/ Epsilon \notin temp THEN temp \ {Epsilon} ELSE temp

\* "for body_component in production.body" of get_first_set and the test
\* after it: first_set_temp for a body that is not empty
first_of_body(first_set, body) ==
    LET n == Len(body)
        without == {k \in 1..n : Epsilon \notin dict_get(first_set, body[k])}
        first_not_containing_epsilon ==
            IF without = {} THEN n
            ELSE (CHOOSE k \in without : \A m \in without : k <= m) - 1
        last == IF first_not_containing_epsilon = n THEN n
                ELSE first_not_containing_epsilon + 1
        first_set_temp == UNION {dict_get(first_set, body[k]) : k \in 1..last}
    IN IF first_not_containing_epsilon # n
       THEN first_set_temp \ {Epsilon}
       ELSE first_set_temp

\* "for production in production_by_head[current]" of get_first_set
RECURSIVE first_for_productions(_, _, _)
first_for_productions(todo, triggers, st) ==
    IF todo = <<>> THEN st
    ELSE LET production == Head(todo)
         IN IF production.body = <<>>
            THEN first_for_productions(Tail(todo), triggers, st)
            ELSE LET before == dict_get(st.first_set, production.head)
                     after == before
                              \cup first_of_body(st.first_set, production.body)
                 IN first_for_productions(Tail(todo), triggers,
                      [first_set |->
                           dict_set(st.first_set, production.head, after),
                       to_process |->
                           IF Cardinality(after) # Cardinality(before)
                           THEN set_queue_append(st.to_process,
                                    triggers_get(triggers, production.head))
                           ELSE st.to_process])

\* "while to_process: current = to_process.pop() ..." of get_first_set
RECURSIVE first_while(_, _, _)
first_while(productions, triggers, st) ==
    IF st.to_process = <<>> THEN st.first_set
    ELSE LET n == Len(st.to_process)
             current == st.to_process[n]
         IN first_while(productions, triggers,
              first_for_productions(get_productions_d(productions, current),
                  triggers,
                  [st EXCEPT !.to_process = SubSeq(st.to_process, 1, n - 1)]))

\* CFG.get_first_set
get_first_set(cfg) ==
    LET triggers == get_triggers(cfg.productions)
    IN first_while(cfg.productions, triggers,
                   initialize_first_set(cfg, triggers))


\* the end-of-input marker "$"
EndMarker == <<"$", "$">>

\* body[i + 1:]
body_after(body, i) == SubSeq(body, i + 1, Len(body))

\* "for component_next in production.body[i + 1:]" of the two FOLLOW
\* helpers: the components read before the loop breaks
RECURSIVE components_next(_, _)
components_next(first_set, rest) ==
    IF rest = <<>> THEN <<>>
    ELSE IF Epsilon \notin dict_get(first_set, Head(rest))
         THEN <<Head(rest)>>
         ELSE <<Head(rest)>> \o components_next(first_set, Tail(rest))

\* all_epsilon of _get_triggers_follow_set
all_epsilon(first_set, rest) ==
    \A k \in 1..Len(rest) : Epsilon \in dict_get(first_set, rest[k])

\* _get_triggers_follow_set with the last body component alone
get_triggers_follow_set_last_component(productions, first_set) ==
    [head \in {productions[i].head : i \in 1..Len(productions)} |->
        {p.body[Len(p.body)] :
             p \in {q \in Range(productions) :
                        q.head = head /\ q.body # <<>>}}]

\* CFG._get_triggers_follow_set
get_triggers_follow_set(productions, first_set) ==
    [head \in {productions[i].head : i \in 1..Len(productions)} |->
        UNION {{p.body[i] : i \in {k \in 1..Len(p.body) :
                                     all_epsilon(first_set,
                                                 body_after(p.body, k))}} :
               p \in {q \in Range(productions) : q.head = head}}]

\* "for i, component in enumerate(production.body)" of
\* _initialize_follow_set, from position i on
RECURSIVE follow_for_components(_, _, _, _)
follow_for_components(first_set, body, i, st) ==
    IF i > Len(body) THEN st
    ELSE LET component == body[i]
             read == components_next(first_set, body_after(body, i))
             united == dict_get(st.follow_set, component)
                       \cup UNION {dict_get(first_set, read[k]) :
                                   k \in 1..Len(read)}
             follow_set == IF read = <<>> /\ Epsilon \notin united
                           THEN st.follow_set
                           ELSE dict_set(st.follow_set, component,
                                         united \ {Epsilon})
         IN follow_for_components(first_set, body, i + 1,
              [follow_set |-> follow_set,
               to_process |->
                   IF dict_get(follow_set, component) # {}
                   THEN set_queue_append(st.to_process, <<component>>)
                   ELSE st.to_process])

\* "for production in self._productions" of _initialize_follow_set
RECURSIVE follow_for_productions(_, _, _)
follow_for_productions(first_set, todo, st) ==
    IF todo = <<>> THEN st
    ELSE follow_for_productions(first_set, Tail(todo),
             follow_for_components(first_set, Head(todo).body, 1, st))

\* CFG._initialize_follow_set
initialize_follow_set(cfg, first_set) ==
    follow_for_productions(first_set, cfg.productions,
        [follow_set |-> dict_set(EmptyDict, cfg.start_symbol, {EndMarker}),
         to_process |-> <<cfg.start_symbol>>])

\* "for triggered in triggers.get(current, set())" of get_follow_set
RECURSIVE follow_for_triggered(_, _, _)
follow_for_triggered(todo, current, st) ==
    IF todo = <<>> THEN st
    ELSE LET triggered == Head(todo)
             before == dict_get(st.follow_set, triggered)
             after == before \cup dict_get(st.follow_set, current)
         IN follow_for_triggered(Tail(todo), current,
              [follow_set |-> dict_set(st.follow_set, triggered, after),
               to_process |->
                   IF Cardinality(before) # Cardinality(after)
                   THEN set_queue_append(st.to_process, <<triggered>>)
                   ELSE st.to_process])

\* "while to_process: current = to_process.pop() ..." of get_follow_set
RECURSIVE follow_while(_, _)
follow_while(triggers, st) ==
    IF st.to_process = <<>> THEN st.follow_set
    ELSE LET n == Len(st.to_process)
             current == st.to_process[n]
         IN follow_while(triggers,
              follow_for_triggered(SetToSeq(dict_get(triggers, current)),
                  current,
                  [st EXCEPT !.to_process = SubSeq(st.to_process, 1, n - 1)]))

\* CFG.get_follow_set
get_follow_set(cfg) ==
    LET first_set == get_first_set(cfg)
    IN follow_while(get_triggers_follow_set(cfg.productions, first_set),
                    initialize_follow_set(cfg, first_set))

(***************************************************************************)
(* The private attributes of a grammar object                              *)
(***************************************************************************)
\* the attributes __init__ sets to None: not_none holds the names of those
\* that have got a value since
NewSelf ==
    [not_none |-> {},
     tables |-> set_impacts_and_remaining_lists(<<>>),
     generating_symbols |-> {},
     nullable_symbols |-> {},
     normal_form |-> EmptyCFG]

\* self._set_impacts_and_remaining_lists(): the tables are built once
self_set_impacts_and_remaining_lists(self, cfg) ==
    IF "_impacts" \in self.not_none THEN self
    ELSE [self EXCEPT
             !.not_none = @ \cup {"_impacts"},
             !.tables = set_impacts_and_remaining_lists(cfg.productions)]

\* self._get_generating_or_nullable(nullable): it counts down in
\* self._remaining_lists and leaves there what "# Fix modifications" leaves
self_get_generating_or_nullable(self, cfg, nullable) ==
    LET built == self_set_impacts_and_remaining_lists(self, cfg)
        run == run_generating_or_nullable(cfg, built.tables, nullable)
    IN [self |-> [built EXCEPT
                     !.tables.remaining_lists = run.remaining_lists],
        value |-> run.g_symbols]

\* self.get_generating_symbols(): the object after the call and the value
\* returned
self_get_generating_symbols(self, cfg) ==
    IF "_generating_symbols" \in self.not_none
    THEN [self |-> self, value |-> self.generating_symbols]
    ELSE LET run == self_get_generating_or_nullable(self, cfg, FALSE)
         IN [self |-> [run.self EXCEPT
                          !.not_none = @ \cup {"_generating_symbols"},
                          !.generating_symbols = run.value],
             value |-> run.value]

\* self.get_nullable_symbols()
self_get_nullable_symbols(self, cfg) ==
    IF "_nullable_symbols" \in self.not_none
    THEN [self |-> self, value |-> self.nullable_symbols]
    ELSE LET run == self_get_generating_or_nullable(self, cfg, TRUE)
         IN [self |-> [run.self EXCEPT
                          !.not_none = @ \cup {"_nullable_symbols"},
                          !.nullable_symbols = run.value],
             value |-> run.value]

\* self.generate_epsilon(): it works on a deep copy of the counters
self_generate_epsilon(self, cfg) ==
    LET built == self_set_impacts_and_remaining_lists(self, cfg)
    IN [self |-> built, value |-> run_generate_epsilon(cfg, built.tables)]

\* self.to_normal_form(), normal_form being the grammar a run that finds
\* no stored normal form computes: such a run asks for the nullable and
\* then for the generating symbols of self
self_to_normal_form(self, cfg, normal_form) ==
    IF "_normal_form" \in self.not_none
    THEN [self |-> self, value |-> self.normal_form]
    ELSE LET asked == self_get_generating_symbols(
                          self_get_nullable_symbols(self, cfg).self, cfg).self
         IN [self |-> [asked EXCEPT
                          !.not_none = @ \cup {"_normal_form"},
                          !.normal_form = normal_form],
             value |-> normal_form]

(***************************************************************************)
(* RecursiveAutomaton                                                      *)
(***************************************************************************)
\* a label as it may be given: a Symbol, or a plain value
Symbol(value) == <<"Symbol", value>>
Plain(value) == <<"str", value>>

\* finite_automaton.to_symbol: a Symbol is kept, a plain value is wrapped
to_symbol(given) == IF given[1] = "Symbol" THEN given ELSE Symbol(given[2])

\* Box(dfa, label): the box keeps its label as a Symbol
Box(dfa, label) == [dfa |-> dfa, label |-> to_symbol(label)]

\* the value None where a label or a box is expected
NoLabel == <<"None", "None">>
NoBox == [dfa |-> "None", label |-> NoLabel]

\* self._boxes.update({label: box})
boxes_update(boxes, label, box) ==
    [l \in DOMAIN boxes \cup {label} |-> IF l = label THEN box ELSE boxes[l]]

\* RecursiveAutomaton.get_box
get_box(rsa, label) ==
    IF to_symbol(label) \in DOMAIN rsa.boxes
    THEN rsa.boxes[to_symbol(label)]
    ELSE NoBox

\* add_box that leaves the labels as they are
add_box_without_label(rsa, new_box) ==
    [rsa EXCEPT !.boxes = boxes_update(rsa.boxes, new_box.label, new_box)]

\* RecursiveAutomaton.add_box
add_box(rsa, new_box) ==
    [rsa EXCEPT !.boxes = boxes_update(rsa.boxes, new_box.label, new_box),
                !.labels = @ \cup {to_symbol(new_box.label)}]

\* RecursiveAutomaton.get_number_of_boxes
get_number_of_boxes(rsa) == Cardinality(DOMAIN rsa.boxes)

\* "for box in boxes: ..." of RecursiveAutomaton.__init__, over the boxes
\* still to visit
RECURSIVE init_boxes(_, _)
init_boxes(todo, rsa) ==
    IF todo = <<>> THEN rsa
    ELSE init_boxes(Tail(todo),
             [rsa EXCEPT
                 !.boxes = boxes_update(rsa.boxes, to_symbol(Head(todo).label),
                                        Head(todo)),
                 !.labels = @ \cup {Head(todo).label}])

\* RecursiveAutomaton(labels, initial_label, boxes): the object, and
\* whether ValueError was raised instead
RecursiveAutomaton(labels, initial_label, boxes) ==
    LET given == {to_symbol(x) : x \in labels}
        initial == IF initial_label # NoLabel THEN to_symbol(initial_label)
                   ELSE NoLabel
        rsa == init_boxes(SetToSeq(boxes),
                   [labels |-> given \cup (IF initial # NoLabel
                                           THEN {initial} ELSE {}),
                    initial_label |-> IF initial # NoLabel THEN initial
                                      ELSE Symbol(""),
                    boxes |-> <<>>])
    IN [raised |-> \E label \in rsa.labels : get_box(rsa, label) = NoBox,
        rsa |-> rsa]

\* RecursiveAutomaton()
EmptyRsa == RecursiveAutomaton({}, NoLabel, {}).rsa

\* RecursiveAutomaton.change_initial_label: the label is converted and
\* looked up in the labels, and nothing is assigned
change_initial_label(rsa, new_initial_label) ==
    IF to_symbol(new_initial_label) \notin rsa.labels
    THEN [raised |-> "ValueError", rsa |-> rsa]
    ELSE [raised |-> "None", rsa |-> rsa]

\* the property RecursiveAutomaton.initial_label
initial_label(rsa) == rsa.initial_label

\* the names class CFG defines
CFG_attributes ==
    {"__init__", "get_generating_symbols", "generate_epsilon",
     "get_reachable_symbols", "remove_useless_symbols",
     "get_nullable_symbols", "remove_epsilon", "get_unit_pairs",
     "eliminate_unit_productions", "to_normal_form", "variables",
     "terminals", "productions", "start_symbol", "substitute", "union",
     "__or__", "concatenate", "__add__", "get_closure",
     "get_positive_closure", "reverse", "__invert__", "is_empty",
     "__bool__", "contains", "get_cnf_leftmost_derivation",
     "get_cnf_rightmost_derivation", "to_pda", "intersection", "__and__",
     "get_words", "is_finite", "from_text", "get_first_set",
     "get_follow_set"}

\* the heads of the lines of remove_repetition_of_nonterminals_from_productions:
\* one line per head, the bodies of the head joined by " | "
heads_in_text(cfg) ==
    {cfg.productions[i].head : i \in 1..Len(cfg.productions)}

\* "for production in grammar_in_true_format.splitlines(): ..." of from_cfg:
\* one box per line, labelled by the head of the line
boxes_from_text(cfg) ==
    {Box("minimal dfa", to_symbol(head)) : head \in heads_in_text(cfg)}

\* RecursiveAutomaton.from_cfg, attributes being the names the class of cfg
\* defines: cfg.to_text() is looked up first
from_cfg_of_class(cfg, attributes) ==
    IF "to_text" \notin attributes
    THEN [raised |-> "AttributeError", rsa |-> EmptyRsa]
    ELSE LET made == RecursiveAutomaton(
                         {to_symbol(head) : head \in heads_in_text(cfg)},
                         to_symbol(cfg.start_symbol), boxes_from_text(cfg))
         IN [raised |-> IF made.raised THEN "ValueError" ELSE "None",
             rsa |-> made.rsa]

\* RecursiveAutomaton.from_cfg
from_cfg(cfg) == from_cfg_of_class(cfg, CFG_attributes)

(***************************************************************************)
(* The grammars and words under test                                       *)
(***************************************************************************)
S == Variable("S")
A == Variable("A")
B == Variable("B")
a == Terminal("a")
b == Terminal("b")

\* the productions the grammars under test are made of
ProdPool ==
    { Production(S, <<Epsilon>>), Production(S, <<a>>), Production(S, <<S>>),
      Production(S, <<A>>), Production(S, <<S, S>>),
      Production(S, <<a, S, b>>), Production(S, <<A, B>>),
      Production(S, <<A, B, A>>),
      Production(A, <<a>>), Production(A, <<>>), Production(A, <<B>>),
      Production(A, <<A, a>>),
      Production(B, <<b>>), Production(B, <<B>>), Production(B, <<A>>) }

\* the grammars CFG(start_symbol=S, productions=P), P a set of at most
\* MaxProds productions of the pool
GrammarsOf(n) ==
    {CFG({}, {}, S, SetToSeq(P)) :
        P \in {Q \in SUBSET ProdPool : Cardinality(Q) <= n}}

Grammars == GrammarsOf(MaxProds)

\* productions for grammars whose bodies carry Epsilon: the first two are
\* built with filtering=False, Epsilon written in the body
UnfilteredPool ==
    { ProductionUnfiltered(S, <<Epsilon>>),
      ProductionUnfiltered(A, <<a, Epsilon>>),
      Production(S, <<A>>), Production(S, <<a, S, b>>),
      Production(S, <<A, B>>), Production(A, <<a>>),
      Production(B, <<A>>), Production(B, <<b>>) }

\* the grammars CFG(start_symbol=S, productions=P), P a set of at most
\* MaxProds productions of that pool
GrammarsUnfiltered ==
    {CFG({}, {}, S, SetToSeq(P)) :
        P \in {Q \in SUBSET UnfilteredPool : Cardinality(Q) <= MaxProds}}

\* the labels, the automata and the boxes the recursive automata under
\* test are made of
GivenLabels == {Symbol("S"), Plain("S"), Symbol("A"), Plain("B")}

Boxes == {Box(dfa, label) : dfa \in {"dfa1", "dfa2"}, label \in GivenLabels}

\* the arguments the constructor accepts: at most MaxBoxes boxes
Constructed ==
    LET tried == {RecursiveAutomaton(labels, given, boxes) :
                      labels \in SUBSET {Symbol("S"), Plain("A")},
                      given \in {NoLabel, Plain("S")},
                      boxes \in {Q \in SUBSET Boxes : Cardinality(Q) <= MaxBoxes}}
    IN {made.rsa : made \in {t \in tried : ~t.raised}}

\* the negative values of max_length under test
NegativeLengths == {-1, -2}

\* the words over {a, b} of length at most n
RECURSIVE WordsUpTo(_)
WordsUpTo(n) ==
    IF n = 0 THEN {<<>>}
    ELSE LET shorter == WordsUpTo(n - 1)
         IN shorter \cup {Append(w, t) : w \in shorter, t \in {a, b}}

Words == WordsUpTo(MaxWordLen)

(***************************************************************************)
(* The language of a grammar, by derivations                               *)
(***************************************************************************)
\* body[k..] derives word[i+1..j], given the facts F = <<symbol, i, j>>
RECURSIVE Match(_, _, _, _, _)
Match(body, k, i, j, F) ==
    IF k > Len(body) THEN i = j
    ELSE \E m \in i..j : <<body[k], i, m>> \in F /\ Match(body, k + 1, m, j, F)

RECURSIVE DerivationFacts(_, _, _)
DerivationFacts(P, n, F) ==
    LET more == F \cup {<<p.head, i, j>> : p \in P, i \in 0..n, j \in 0..n}
        new == {f \in more \ F :
                   \E p \in P : p.head = f[1] /\ f[2] <= f[3]
                                /\ Match(p.body, 1, f[2], f[3], F)}
    IN IF new = {} THEN F ELSE DerivationFacts(P, n, F \cup new)

\* symbol derives word in the grammar
Derives(cfg, symbol, word) ==
    LET n == Len(word)
        terminalFacts == {<<word[i], i - 1, i>> : i \in 1..n}
    IN <<symbol, 0, n>> \in
          DerivationFacts(Range(cfg.productions), n, terminalFacts)

\* word is in L(cfg)
InLanguage(cfg, word) == Derives(cfg, cfg.start_symbol, word)

(***************************************************************************)
(* The automata and the second operands under test                         *)
(***************************************************************************)
\* a*b*
DfaAB == [states |-> {0, 1}, start_state |-> 0, final_states |-> {0, 1},
          delta |-> (<<0, "a">> :> 0) @@ (<<0, "b">> :> 1)
                    @@ (<<1, "b">> :> 1)]
\* the words of odd length
DfaOdd == [states |-> {0, 1}, start_state |-> 0, final_states |-> {1},
           delta |-> (<<0, "a">> :> 1) @@ (<<0, "b">> :> 1)
                     @@ (<<1, "a">> :> 0) @@ (<<1, "b">> :> 0)]
\* the empty word alone
DfaEps == [states |-> {0}, start_state |-> 0, final_states |-> {0},
           delta |-> <<>>]
\* no word: the final state is not reachable
DfaNone == [states |-> {0, 1}, start_state |-> 0, final_states |-> {1},
            delta |-> (<<0, "a">> :> 0)]

Dfas == {DfaAB, DfaOdd, DfaEps, DfaNone}

\* the second operands of union and concatenate: they use the variable
\* names of the grammars under test
Operands ==
    { CFG({}, {}, S, SetToSeq({Production(S, <<a, S, b>>),
                               Production(S, <<>>)})),
      CFG({}, {}, S, SetToSeq({Production(S, <<A, S>>), Production(S, <<b>>),
                               Production(A, <<a>>)})),
      CFG({}, {}, S, SetToSeq({Production(S, <<A>>)})) }

(***************************************************************************)
(* The state: a grammar object, the last call on it and what it returned   *)
(***************************************************************************)
\* cfg: the grammar of the object under test; self: its private attributes;
\* rsa: the recursive automaton under test; call: the call made; ret: what
\* the calls returned
VARIABLES cfg, self, rsa, call, ret

vars == <<cfg, self, rsa, call, ret>>

NoCall == [op |-> "new", word |-> <<>>, other |-> EmptyCFG, dfa |-> DfaNone,
           max_length |-> 0, rounds |-> 0, reuse |-> FALSE,
           box |-> NoBox, label |-> NoLabel,
           labels |-> {}, boxes |-> {}]
NoRet == [bool |-> FALSE, cfg |-> EmptyCFG, first |-> EmptyCFG,
          words |-> <<>>, symbols |-> {}, sets |-> EmptyDict, pairs |-> {},
          other |-> EmptyCFG, box |-> NoBox, number |-> 0,
          raised |-> "None", label |-> NoLabel,
          gen |-> get_words_returned(None, 0, <<>>)]

Init ==
    /\ cfg \in Grammars
    /\ self = NewSelf
    /\ rsa = EmptyRsa
    /\ call = NoCall
    /\ ret = NoRet

\* cfg.contains(word): the empty word is settled by generate_epsilon, another
\* one on the normal form of the grammar
Contains ==
    /\ call.op = "new"
    /\ \E normal_form \in {to_normal_form(cfg)} :
          \E word \in Words :
             /\ call' = [call EXCEPT !.op = "contains", !.word = word]
             /\ ret' = [ret EXCEPT
                          !.bool = contains_with(cfg, normal_form, word)]
             /\ self' = IF SelectSeq(word, LAMBDA x : x # Epsilon) = <<>>
                        THEN self_generate_epsilon(self, cfg).self
                        ELSE self_to_normal_form(self, cfg, normal_form).self
    /\ UNCHANGED <<cfg, rsa>>

\* cfg.to_normal_form()
ToNormalForm ==
    /\ call.op = "new" \/ call.reuse
    /\ \E run \in {self_to_normal_form(self, cfg,
                       IF "_normal_form" \in self.not_none
                       THEN self.normal_form ELSE to_normal_form(cfg))} :
          /\ call' = [call EXCEPT !.op = "to_normal_form"]
          /\ ret' = [ret EXCEPT !.cfg = run.value]
          /\ self' = run.self
    /\ UNCHANGED <<cfg, rsa>>

\* cfg.to_normal_form().to_normal_form(): the second call, on the grammar
\* the first one returned
ToNormalFormAgain ==
    /\ call.op = "to_normal_form"
    /\ ~call.reuse
    /\ call' = [call EXCEPT !.op = "to_normal_form.to_normal_form"]
    /\ ret' = [ret EXCEPT !.first = ret.cfg, !.cfg = to_normal_form(ret.cfg)]
    /\ UNCHANGED <<cfg, self, rsa>>

\* cfg.to_normal_form() is entered: ret.cfg is the grammar the current
\* level of the recursion runs on
NormalFormEnter ==
    /\ call.op = "new"
    /\ call' = [call EXCEPT !.op = "to_normal_form:running", !.rounds = 0]
    /\ ret' = [ret EXCEPT !.cfg = cfg]
    /\ self' = self_get_generating_symbols(
                   self_get_nullable_symbols(self, cfg).self, cfg).self
    /\ UNCHANGED <<cfg, rsa>>

\* the grammar is not in canonical shape and has productions: new_cfg is
\* built and new_cfg.to_normal_form() is entered
NormalFormRound ==
    /\ call.op = "to_normal_form:running"
    /\ call.rounds < MaxRounds
    /\ not_canonical(ret.cfg)
    /\ Len(ret.cfg.productions) # 0
    /\ call' = [call EXCEPT !.rounds = call.rounds + 1]
    /\ ret' = [ret EXCEPT !.cfg = normal_form_round(ret.cfg)]
    /\ UNCHANGED <<cfg, self, rsa>>

\* the current level returns, and with it every level above it
NormalFormReturn ==
    /\ call.op = "to_normal_form:running"
    /\ ~not_canonical(ret.cfg) \/ Len(ret.cfg.productions) = 0
    /\ \E normal_form \in {IF not_canonical(ret.cfg) THEN ret.cfg
                           ELSE normal_form_of_canonical(ret.cfg)} :
          /\ call' = [call EXCEPT !.op = "to_normal_form:returned"]
          /\ ret' = [ret EXCEPT !.cfg = normal_form]
          /\ self' = [self EXCEPT !.not_none = @ \cup {"_normal_form"},
                                  !.normal_form = normal_form]
    /\ UNCHANGED <<cfg, rsa>>

\* cfg.remove_useless_symbols()
RemoveUselessSymbols ==
    /\ call.op = "new"
    /\ call' = [call EXCEPT !.op = "remove_useless_symbols"]
    /\ ret' = [ret EXCEPT !.cfg = remove_useless_symbols(cfg)]
    /\ self' = self_get_generating_symbols(self, cfg).self
    /\ UNCHANGED <<cfg, rsa>>

\* cfg.remove_epsilon()
RemoveEpsilon ==
    /\ call.op = "new"
    /\ call' = [call EXCEPT !.op = "remove_epsilon"]
    /\ ret' = [ret EXCEPT !.cfg = remove_epsilon(cfg)]
    /\ self' = self_get_nullable_symbols(self, cfg).self
    /\ UNCHANGED <<cfg, rsa>>

\* cfg.eliminate_unit_productions()
EliminateUnitProductions ==
    /\ call.op = "new"
    /\ call' = [call EXCEPT !.op = "eliminate_unit_productions"]
    /\ ret' = [ret EXCEPT !.cfg = eliminate_unit_productions(cfg)]
    /\ UNCHANGED <<cfg, self, rsa>>

\* cfg.get_words(max_length), run to its end
GetWords ==
    /\ call.op = "new"
    /\ \E normal_form \in {to_normal_form(cfg)} :
          \E max_length \in 0..MaxWordLen :
             /\ call' = [call EXCEPT !.op = "get_words",
                                     !.max_length = max_length]
             /\ ret' = [ret EXCEPT !.words = get_words(cfg, max_length)]
             /\ self' =
                   LET asked == self_get_nullable_symbols(self, cfg).self
                   IN IF max_length = 0 THEN asked
                      ELSE self_to_normal_form(asked, cfg, normal_form).self
    /\ UNCHANGED <<cfg, rsa>>

\* cfg.get_words(max_length) with a negative max_length, the generator
\* advanced to the first test of its loop
GetWordsStart ==
    /\ call.op = "new"
    /\ \E normal_form \in {to_normal_form(cfg)} :
          \E max_length \in NegativeLengths :
             /\ call' = [call EXCEPT !.op = "next(get_words)",
                                     !.max_length = max_length,
                                     !.rounds = 0]
             /\ ret' = [ret EXCEPT !.gen = get_words_start(cfg, max_length)]
             /\ self' = self_to_normal_form(
                            self_get_nullable_symbols(self, cfg).self,
                            cfg, normal_form).self
    /\ UNCHANGED <<cfg, rsa>>

\* the generator advanced by one pass of its loop
GetWordsPass ==
    /\ call.op = "next(get_words)"
    /\ ~ret.gen.returned
    /\ call.rounds < MaxPasses
    /\ Len(ret.gen.yielded) <= MaxYielded
    /\ call' = [call EXCEPT !.rounds = @ + 1]
    /\ ret' = [ret EXCEPT !.gen = get_words_pass(ret.gen)]
    /\ UNCHANGED <<cfg, self, rsa>>

\* cfg.is_finite()
IsFinite ==
    /\ call.op = "new"
    /\ call' = [call EXCEPT !.op = "is_finite"]
    /\ ret' = [ret EXCEPT !.bool = is_finite(cfg)]
    /\ self' = self_to_normal_form(self, cfg, to_normal_form(cfg)).self
    /\ UNCHANGED <<cfg, rsa>>

\* cfg.get_generating_symbols()
GetGeneratingSymbols ==
    /\ call.op = "new" \/ call.reuse
    /\ \E run \in {self_get_generating_symbols(self, cfg)} :
          /\ call' = [call EXCEPT !.op = "get_generating_symbols"]
          /\ ret' = [ret EXCEPT !.symbols = run.value]
          /\ self' = run.self
    /\ UNCHANGED <<cfg, rsa>>

\* cfg.get_nullable_symbols()
GetNullableSymbols ==
    /\ call.op = "new" \/ call.reuse
    /\ \E run \in {self_get_nullable_symbols(self, cfg)} :
          /\ call' = [call EXCEPT !.op = "get_nullable_symbols"]
          /\ ret' = [ret EXCEPT !.symbols = run.value]
          /\ self' = run.self
    /\ UNCHANGED <<cfg, rsa>>

\* cfg.generate_epsilon()
GenerateEpsilon ==
    /\ call.op = "new" \/ call.reuse
    /\ \E run \in {self_generate_epsilon(self, cfg)} :
          /\ call' = [call EXCEPT !.op = "generate_epsilon"]
          /\ ret' = [ret EXCEPT !.bool = run.value]
          /\ self' = run.self
    /\ UNCHANGED <<cfg, rsa>>

\* cfg.get_first_set()
GetFirstSet ==
    /\ call.op = "new"
    /\ call' = [call EXCEPT !.op = "get_first_set"]
    /\ ret' = [ret EXCEPT !.sets = get_first_set(cfg)]
    /\ UNCHANGED <<cfg, self, rsa>>

\* cfg.get_follow_set()
GetFollowSet ==
    /\ call.op = "new"
    /\ call' = [call EXCEPT !.op = "get_follow_set"]
    /\ ret' = [ret EXCEPT !.sets = get_follow_set(cfg)]
    /\ UNCHANGED <<cfg, self, rsa>>

\* cfg.get_reachable_symbols()
GetReachableSymbols ==
    /\ call.op = "new"
    /\ call' = [call EXCEPT !.op = "get_reachable_symbols"]
    /\ ret' = [ret EXCEPT !.symbols = get_reachable_symbols(cfg)]
    /\ UNCHANGED <<cfg, self, rsa>>

\* cfg.get_unit_pairs()
GetUnitPairs ==
    /\ call.op = "new"
    /\ call' = [call EXCEPT !.op = "get_unit_pairs"]
    /\ ret' = [ret EXCEPT !.pairs = get_unit_pairs(cfg)]
    /\ UNCHANGED <<cfg, self, rsa>>

\* cfg.substitute({ter: other}): self._terminals is what the loop over the
\* items leaves of it; other is read through its properties
Substitute ==
    /\ call.op = "new"
    /\ \E ter \in {a, b}, other \in Operands :
          /\ call' = [call EXCEPT !.op = "substitute", !.word = <<ter>>,
                                  !.other = other]
          /\ ret' = [ret EXCEPT
                       !.cfg = substitute(cfg, << <<ter, other>> >>),
                       !.other = other]
          /\ cfg' = [cfg EXCEPT
                       !.terminals =
                           subs_terminals(cfg, << <<ter, other>> >>)
                               .self_terminals]
    /\ UNCHANGED <<self, rsa>>

\* cfg.get_closure()
GetClosure ==
    /\ call.op = "new"
    /\ call' = [call EXCEPT !.op = "get_closure"]
    /\ ret' = [ret EXCEPT !.cfg = get_closure(cfg)]
    /\ UNCHANGED <<cfg, self, rsa>>

\* cfg.reverse()
Reverse ==
    /\ call.op = "new"
    /\ call' = [call EXCEPT !.op = "reverse"]
    /\ ret' = [ret EXCEPT !.cfg = reverse(cfg)]
    /\ UNCHANGED <<cfg, self, rsa>>

\* cfg.union(other)
Union ==
    /\ call.op = "new"
    /\ \E other \in Operands :
          /\ call' = [call EXCEPT !.op = "union", !.other = other]
          /\ ret' = [ret EXCEPT !.cfg = union(cfg, other), !.other = other]
    /\ UNCHANGED <<cfg, self, rsa>>

\* cfg.concatenate(other)
Concatenate ==
    /\ call.op = "new"
    /\ \E other \in Operands :
          /\ call' = [call EXCEPT !.op = "concatenate", !.other = other]
          /\ ret' = [ret EXCEPT !.cfg = concatenate(cfg, other),
                                 !.other = other]
    /\ UNCHANGED <<cfg, self, rsa>>

\* cfg.intersection(dfa): unless the automaton accepts nothing, it asks
\* self.contains([]) and then self.to_normal_form()
Intersection ==
    /\ call.op = "new"
    /\ \E normal_form \in {to_normal_form(cfg)} :
          \E dfa \in Dfas :
             /\ call' = [call EXCEPT !.op = "intersection", !.dfa = dfa]
             /\ ret' = [ret EXCEPT !.cfg = intersection(cfg, dfa)]
             /\ self' = IF dfa_is_empty(dfa) THEN self
                        ELSE self_to_normal_form(
                                 self_generate_epsilon(self, cfg).self,
                                 cfg, normal_form).self
    /\ UNCHANGED <<cfg, rsa>>

\* ret.contains(word), on the grammar the last call returned
ContainsOfReturned ==
    /\ call.op \in {"to_normal_form", "union", "concatenate", "intersection"}
    /\ ~call.reuse
    /\ \E normal_form \in {to_normal_form(ret.cfg)} :
          \E word \in Words :
             /\ call' = [call EXCEPT !.op = call.op \o ".contains",
                                     !.word = word]
             /\ ret' = [ret EXCEPT
                          !.bool = contains_with(ret.cfg, normal_form, word)]
    /\ UNCHANGED <<cfg, self, rsa>>

\* rsa.add_box(new_box)
AddBox ==
    /\ \E new_box \in Boxes :
          /\ call' = [call EXCEPT !.op = "add_box", !.box = new_box]
          /\ rsa' = add_box(rsa, new_box)
    /\ UNCHANGED <<cfg, self, ret>>

\* rsa.get_box(label)
GetBox ==
    /\ \E label \in GivenLabels :
          /\ call' = [call EXCEPT !.op = "get_box", !.label = label]
          /\ ret' = [ret EXCEPT !.box = get_box(rsa, label)]
    /\ UNCHANGED <<cfg, self, rsa>>

\* rsa.get_number_of_boxes()
GetNumberOfBoxes ==
    /\ call' = [call EXCEPT !.op = "get_number_of_boxes"]
    /\ ret' = [ret EXCEPT !.number = get_number_of_boxes(rsa)]
    /\ UNCHANGED <<cfg, self, rsa>>

\* RecursiveAutomaton(labels, initial_label, boxes)
NewRecursiveAutomaton ==
    /\ call.op = "new"
    /\ \E labels \in SUBSET {Symbol("S"), Plain("A")},
          given \in {NoLabel, Plain("S"), Symbol("B")},
          boxes \in {Q \in SUBSET Boxes : Cardinality(Q) <= MaxBoxes} :
          \E made \in {RecursiveAutomaton(labels, given, boxes)} :
             /\ call' = [call EXCEPT !.op = "RecursiveAutomaton",
                                     !.labels = labels, !.label = given,
                                     !.boxes = boxes]
             /\ ret' = [ret EXCEPT !.raised = IF made.raised
                                              THEN "ValueError" ELSE "None"]
             /\ rsa' = IF made.raised THEN rsa ELSE made.rsa
    /\ UNCHANGED <<cfg, self>>

\* RecursiveAutomaton.from_cfg(other)
FromCfg ==
    /\ call.op = "new"
    /\ \E other \in GrammarsOf(MaxOperandProds) :
          \E made \in {from_cfg(other)} :
             /\ call' = [call EXCEPT !.op = "from_cfg", !.other = other]
             /\ ret' = [ret EXCEPT !.raised = made.raised]
             /\ rsa' = IF made.raised = "None" THEN made.rsa ELSE rsa
    /\ UNCHANGED <<cfg, self>>

\* rsa.change_initial_label(new_initial_label)
ChangeInitialLabel ==
    /\ \E label \in GivenLabels :
          \E changed \in {change_initial_label(rsa, label)} :
             /\ call' = [NoCall EXCEPT !.op = "change_initial_label",
                                     !.label = label]
             /\ ret' = [ret EXCEPT !.raised = changed.raised]
             /\ rsa' = changed.rsa
    /\ UNCHANGED <<cfg, self>>

\* rsa.initial_label
InitialLabel ==
    /\ call' = [NoCall EXCEPT !.op = "initial_label"]
    /\ ret' = [ret EXCEPT !.label = initial_label(rsa)]
    /\ UNCHANGED <<cfg, self, rsa>>

\* the calls on one grammar: membership, normal form, analyses
Next ==
    \/ Contains
    \/ ToNormalForm
    \/ ToNormalFormAgain
    \/ RemoveUselessSymbols
    \/ RemoveEpsilon
    \/ EliminateUnitProductions
    \/ GetWords
    \/ IsFinite
    \/ GetGeneratingSymbols
    \/ GetNullableSymbols
    \/ GenerateEpsilon
    \/ GetFirstSet
    \/ GetFollowSet
    \/ ContainsOfReturned

Spec == Init /\ [][Next]_vars

\* the recursion of to_normal_form, level by level
NextNormalForm ==
    \/ NormalFormEnter
    \/ NormalFormRound
    \/ NormalFormReturn

SpecNormalForm == Init /\ [][NextNormalForm]_vars

\* one object that is called again and again
InitReuse ==
    /\ cfg \in Grammars
    /\ self = NewSelf
    /\ rsa = EmptyRsa
    /\ call = [NoCall EXCEPT !.reuse = TRUE]
    /\ ret = NoRet

\* the calls that read and write the private attributes, in any order
NextReuse ==
    \/ GetGeneratingSymbols
    \/ GetNullableSymbols
    \/ GenerateEpsilon
    \/ ToNormalForm

SpecReuse == InitReuse /\ [][NextReuse]_vars

\* the analyses and the transformations, each on a new object
NextTransform ==
    \/ GetGeneratingSymbols
    \/ GetNullableSymbols
    \/ GetReachableSymbols
    \/ GetUnitPairs
    \/ RemoveUselessSymbols
    \/ RemoveEpsilon
    \/ EliminateUnitProductions
    \/ ToNormalForm
    \/ Substitute
    \/ Union
    \/ Concatenate
    \/ GetClosure
    \/ Reverse
    \/ Intersection
    \/ GetWords
    \/ IsFinite

SpecTransform == Init /\ [][NextTransform]_vars

\* a new object made of productions that may be unfiltered
InitUnfiltered ==
    /\ cfg \in GrammarsUnfiltered
    /\ self = NewSelf
    /\ rsa = EmptyRsa
    /\ call = NoCall
    /\ ret = NoRet

\* transformations of such a grammar
NextUnfiltered ==
    \/ RemoveUselessSymbols
    \/ EliminateUnitProductions
    \/ GetClosure
    \/ Reverse

SpecUnfiltered == InitUnfiltered /\ [][NextUnfiltered]_vars

\* a recursive automaton the constructor has accepted
InitRsa ==
    /\ cfg = EmptyCFG
    /\ self = NewSelf
    /\ rsa \in Constructed
    /\ call = NoCall
    /\ ret = NoRet

\* the calls on a recursive automaton, in any order
NextRsa ==
    \/ AddBox
    \/ GetBox
    \/ GetNumberOfBoxes

SpecRsa == InitRsa /\ [][NextRsa]_vars

\* the generator of get_words with a negative max_length, pass by pass
NextWords ==
    \/ GetWordsStart
    \/ GetWordsPass

SpecWords == Init /\ [][NextWords]_vars

\* the constructors of a recursive automaton, and its initial label
NextLabels ==
    \/ NewRecursiveAutomaton
    \/ FromCfg
    \/ ChangeInitialLabel
    \/ InitialLabel

SpecLabels == InitRsa /\ [][NextLabels]_vars

\* the grammars that are the first operand of a binary operation
InitOperand ==
    /\ cfg \in GrammarsOf(MaxOperandProds)
    /\ self = NewSelf
    /\ rsa = EmptyRsa
    /\ call = NoCall
    /\ ret = NoRet

\* union, and membership in its result
NextUnion ==
    \/ Union
    \/ ContainsOfReturned

SpecUnion == InitOperand /\ [][NextUnion]_vars

\* concatenation, and membership in its result
NextConcatenate ==
    \/ Concatenate
    \/ ContainsOfReturned

SpecConcatenate == InitOperand /\ [][NextConcatenate]_vars

\* intersection with an automaton, and membership in its result
NextIntersection ==
    \/ Intersection
    \/ ContainsOfReturned

SpecIntersection == InitOperand /\ [][NextIntersection]_vars

(***************************************************************************)
(* Reference notions the properties are stated with                        *)
(***************************************************************************)
\* the symbols that derive some string of terminals: the least set with the
\* terminals and every head of a production whose body lies in the set
RECURSIVE GeneratingFrom(_, _)
GeneratingFrom(P, F) ==
    LET more == F \cup {p.head : p \in {q \in P : Range(q.body) \subseteq F}}
    IN IF more = F THEN F ELSE GeneratingFrom(P, more)

Generating(g) == GeneratingFrom(Range(g.productions), g.terminals)

\* the symbols that occur in a sentential form derivable from the start
RECURSIVE ReachableFrom(_, _)
ReachableFrom(P, F) ==
    LET more == F \cup UNION {Range(p.body) : p \in {q \in P : q.head \in F}}
    IN IF more = F THEN F ELSE ReachableFrom(P, more)

Reachable(g) == ReachableFrom(Range(g.productions), {g.start_symbol})

\* the symbols that derive some non-empty string of terminals
RECURSIVE NonEmptyFrom(_, _, _)
NonEmptyFrom(P, gen, F) ==
    LET more == F \cup {p.head : p \in {q \in P :
                           /\ Range(q.body) \subseteq gen
                           /\ Range(q.body) \cap F # {}}}
    IN IF more = F THEN F ELSE NonEmptyFrom(P, gen, more)

\* L(g) is infinite: some useful variable X has X =>+ u X v with u v not
\* empty, i.e. a production X -> alpha Y beta of useful symbols whose
\* alpha beta derives a non-empty string, and Y =>* .. X ..
LanguageInfinite(g) ==
    LET gen == Generating(g)
        P1 == {p \in Range(g.productions) :
                  p.head \in gen /\ Range(p.body) \subseteq gen}
        reach == ReachableFrom(P1, {g.start_symbol})
        P2 == {p \in P1 : p.head \in reach}
        nonEmpty == NonEmptyFrom(P2, gen, g.terminals \cap gen)
    IN \E p \in P2 : \E k \in 1..Len(p.body) :
          /\ isVariable(p.body[k])
          /\ \E m \in (1..Len(p.body)) \ {k} : p.body[m] \in nonEmpty
          /\ p.head \in ReachableFrom(P2, {p.body[k]})

\* the words of the automaton, up to the length that decides emptiness
DfaWords(dfa) == {w \in WordsUpTo(Cardinality(dfa.states)) :
                     dfa_accepts(dfa, w)}

(***************************************************************************)
(* Properties                                                              *)
(***************************************************************************)
\* the body of p has the shape Chomsky normal form allows in grammar g
IsNormalFormProduction(g, p) ==
    \/ Len(p.body) = 2 /\ isVariable(p.body[1]) /\ isVariable(p.body[2])
    \/ Len(p.body) = 1 /\ isTerminal(p.body[1])
    \/ Len(p.body) = 0 /\ p.head = g.start_symbol

\* C1: cfg.contains(word) and cfg.to_normal_form().contains(word) return
\* the same boolean for every word, the empty word included, and it is TRUE
\* exactly when the word is derivable from the start symbol.
C1_ContainsAgreesWithNormalForm ==
    /\ call.op = "contains" => ret.bool = InLanguage(cfg, call.word)
    /\ call.op = "to_normal_form.contains" =>
          /\ ret.bool = contains(cfg, call.word)
          /\ ret.bool = InLanguage(cfg, call.word)

\* What holds of membership: contains decides L(cfg); the normal form
\* decides L(cfg) without the empty word, which it never contains.
ContainsDecidesLanguage ==
    /\ call.op = "contains" => ret.bool = InLanguage(cfg, call.word)
    /\ call.op = "to_normal_form.contains" =>
          ret.bool = (call.word # <<>> /\ InLanguage(cfg, call.word))

\* C2: every production of cfg.to_normal_form() has two variables, or one
\* terminal, or (at the start symbol only) nothing as its body.
C2_NormalFormShape ==
    call.op = "to_normal_form" =>
        \A p \in Range(ret.cfg.productions) :
            IsNormalFormProduction(ret.cfg, p)

\* What holds of the shape: the only other productions of the normal form
\* are self unit productions X -> X that cfg already had.
NormalFormShapeButSelfUnits ==
    call.op = "to_normal_form" =>
        \A p \in Range(ret.cfg.productions) :
            \/ IsNormalFormProduction(ret.cfg, p) /\ p.body # <<>>
            \/ p.body = <<p.head>> /\ p \in Range(cfg.productions)

\* C3: to_normal_form is idempotent: the normal form of the normal form has
\* the production set of the normal form.
C3_NormalFormIdempotent ==
    call.op = "to_normal_form.to_normal_form" =>
        Range(ret.cfg.productions) = Range(ret.first.productions)

\* C3 witness: the second normal form of a grammar whose first normal form
\* needed fresh variables.
C3_Witness ==
    /\ call.op = "to_normal_form.to_normal_form"
    /\ \E p \in Range(ret.first.productions) : p.head \notin cfg.variables
    /\ \E p \in Range(ret.first.productions) : Len(p.body) = 1

\* C4: every variable and terminal of cfg.remove_useless_symbols(), the
\* start symbol included, is generating and reachable in the result.
C4_NoUselessSymbol ==
    call.op = "remove_useless_symbols" =>
        \A x \in ret.cfg.variables \cup ret.cfg.terminals :
            x \in Generating(ret.cfg) /\ x \in Reachable(ret.cfg)

\* What holds of the result: every symbol is reachable, and every symbol
\* but the start symbol is generating.
NoUselessSymbolButStart ==
    call.op = "remove_useless_symbols" =>
        \A x \in ret.cfg.variables \cup ret.cfg.terminals :
            /\ x \in Reachable(ret.cfg)
            /\ x \in Generating(ret.cfg) \/ x = cfg.start_symbol

\* C5: cfg.union(other).contains(word) is TRUE exactly when
\* cfg.contains(word) or other.contains(word) is, also when the two
\* grammars use the same variable names.
C5_UnionContains ==
    call.op = "union.contains" =>
        ret.bool = (contains(cfg, call.word) \/ contains(call.other, call.word))

\* C5 witness: a word of the union that only the second operand contains,
\* the operands sharing a variable name.
C5_Witness ==
    /\ call.op = "union.contains"
    /\ ret.bool
    /\ ~contains(cfg, call.word)
    /\ Len(cfg.productions) > 0
    /\ cfg.variables \cap call.other.variables # {}

\* the word is u v with u in L(g1) and v in L(g2), by contains
SplitContains(g1, g2, word) ==
    \E i \in 0..Len(word) :
        /\ contains(g1, SubSeq(word, 1, i))
        /\ contains(g2, SubSeq(word, i + 1, Len(word)))

\* C6: cfg.concatenate(other).contains(word) is TRUE exactly when the word
\* splits as u v, u or v possibly empty, with cfg.contains(u) and
\* other.contains(v).
C6_ConcatenateContains ==
    call.op = "concatenate.contains" =>
        ret.bool = SplitContains(cfg, call.other, call.word)

\* C6 witness: a word of the concatenation whose two parts are both
\* non-empty.
C6_Witness ==
    /\ call.op = "concatenate.contains"
    /\ ret.bool
    /\ ~contains(cfg, <<>>)
    /\ ~contains(call.other, <<>>)

\* C7: cfg.intersection(dfa).contains(word) is TRUE exactly when
\* cfg.contains(word) and dfa.accepts(word); the result has Start -> epsilon
\* exactly when both accept the empty word; it is the empty grammar when
\* the automaton accepts nothing.
C7_IntersectionContains ==
    /\ call.op = "intersection.contains" =>
          ret.bool = (contains(cfg, call.word)
                      /\ dfa_accepts(call.dfa, call.word))
    /\ call.op = "intersection" =>
          /\ (Production(Variable("Start"), <<>>)
                 \in Range(ret.cfg.productions))
             = (contains(cfg, <<>>) /\ dfa_accepts(call.dfa, <<>>))
          /\ DfaWords(call.dfa) = {} => ret.cfg = EmptyCFG

\* C7 witness: a word of two letters or more in the intersection, of a
\* grammar with a word the automaton rejects.
C7_Witness ==
    /\ call.op = "intersection.contains"
    /\ ret.bool
    /\ Len(call.word) >= 2
    /\ \E w \in Words : contains(cfg, w) /\ ~dfa_accepts(call.dfa, w)

\* C8: cfg.get_words(k), k >= 0, yields exactly the words of L(cfg) of
\* length at most k, each once and each a list of terminals, by
\* non-decreasing length, the empty word first iff the start symbol is
\* nullable.
C8_GetWordsExact ==
    call.op = "get_words" =>
        LET ws == ret.words
        IN /\ Range(ws) = {w \in WordsUpTo(call.max_length) :
                              InLanguage(cfg, w)}
           /\ \A i, j \in 1..Len(ws) :
                 i < j => ws[i] # ws[j] /\ Len(ws[i]) <= Len(ws[j])
           /\ (ws # <<>> /\ ws[1] = <<>>)
              = Derives(cfg, cfg.start_symbol, <<>>)

\* What holds of get_words: the same, for the grammars whose normal form
\* has no unit production.
GetWordsExactWithoutUnits ==
    call.op = "get_words"
    /\ (\A p \in Range(to_normal_form(cfg).productions) : ~isUnit(p))
    => LET ws == ret.words
       IN /\ Range(ws) = {w \in WordsUpTo(call.max_length) :
                             InLanguage(cfg, w)}
          /\ \A i, j \in 1..Len(ws) :
                i < j => ws[i] # ws[j] /\ Len(ws[i]) <= Len(ws[j])
          /\ (ws # <<>> /\ ws[1] = <<>>)
             = Derives(cfg, cfg.start_symbol, <<>>)

\* C9: cfg.is_finite() is TRUE exactly when L(cfg) is finite.
C9_IsFiniteDecidesFiniteness ==
    call.op = "is_finite" => ret.bool = ~LanguageInfinite(cfg)

\* C9 witness: is_finite answers FALSE for a grammar that has a production
\* whose body is not recursive.
C9_Witness ==
    /\ call.op = "is_finite"
    /\ ~ret.bool
    /\ \E p \in Range(cfg.productions) : p.head \notin Range(p.body)

\* C10: get_nullable_symbols() is the set of the variables that derive the
\* empty string, and generate_epsilon() is TRUE exactly when the start
\* symbol is in get_nullable_symbols().
C10_NullableExact ==
    /\ call.op = "get_nullable_symbols" =>
          ret.symbols = {X \in cfg.variables : Derives(cfg, X, <<>>)}
    /\ call.op = "generate_epsilon" =>
          ret.bool = (cfg.start_symbol \in get_nullable_symbols(cfg))

\* C10 witness: the start symbol is found nullable through a body of three
\* symbols, with no empty production of its own.
C10_Witness ==
    /\ call.op = "get_nullable_symbols"
    /\ cfg.start_symbol \in ret.symbols
    /\ \A p \in Range(cfg.productions) :
          p.head = cfg.start_symbol => Len(p.body) = 3

\* C11: get_generating_symbols() is the least set holding every terminal
\* and every variable with a production whose body lies in the set (an
\* empty body qualifying its head); it is a subset of the variables and
\* terminals and never holds Epsilon.
C11_GeneratingExact ==
    call.op = "get_generating_symbols" =>
        /\ ret.symbols = Generating(cfg)
        /\ ret.symbols \subseteq cfg.variables \cup cfg.terminals
        /\ Epsilon \notin ret.symbols

\* C11 witness: a variable found generating through another variable, in a
\* grammar that also has a variable that is not generating.
C11_Witness ==
    /\ call.op = "get_generating_symbols"
    /\ cfg.variables \ ret.symbols # {}
    /\ \E X \in ret.symbols \cap cfg.variables :
          \A p \in Range(cfg.productions) :
              p.head = X => \E k \in 1..Len(p.body) : isVariable(p.body[k])

\* the pairs (X, Y) with X =>* Y by unit productions alone
RECURSIVE UnitPairsFrom(_, _)
UnitPairsFrom(P, F) ==
    LET next(pair) == {<<pair[1], p.body[1]>> :
                          p \in {q \in P : isUnit(q) /\ q.head = pair[2]}}
        more == F \cup UNION {next(pair) : pair \in F}
    IN IF more = F THEN F ELSE UnitPairsFrom(P, more)

UnitPairs(g) ==
    UnitPairsFrom(Range(g.productions), {<<v, v>> : v \in g.variables})

\* C12: the result of eliminate_unit_productions() has no production whose
\* body is a single variable, and for every unit pair (X, Y) of cfg and
\* every non-unit production Y -> gamma of cfg it has X -> gamma.
C12_UnitProductionsEliminated ==
    call.op = "eliminate_unit_productions" =>
        /\ \A p \in Range(ret.cfg.productions) : ~isUnit(p)
        /\ \A pair \in UnitPairs(cfg) : \A p \in Range(cfg.productions) :
              ~isUnit(p) /\ p.head = pair[2] =>
                 [head |-> pair[1], body |-> p.body]
                    \in Range(ret.cfg.productions)

\* C12 witness: a chain S -> A, A -> B with a non-unit production of B,
\* which the result gives to S.
C12_Witness ==
    /\ call.op = "eliminate_unit_productions"
    /\ Production(S, <<A>>) \in Range(cfg.productions)
    /\ Production(A, <<B>>) \in Range(cfg.productions)
    /\ \E p \in Range(cfg.productions) :
          /\ p.head = B /\ ~isUnit(p)
          /\ [head |-> S, body |-> p.body] \in Range(ret.cfg.productions)

\* the variables of g that derive the empty string
Nullable(g) == {X \in g.variables : Derives(g, X, <<>>)}

\* body without the positions of D
Drop(body, D) ==
    LET kept == SelectSeq([k \in 1..Len(body) |-> k], LAMBDA k : k \notin D)
    IN [i \in 1..Len(kept) |-> body[kept[i]]]

\* the bodies got from body by keeping or dropping, independently, each
\* occurrence of a symbol of N
KeepOrDrop(body, N) ==
    {Drop(body, D) : D \in SUBSET {k \in 1..Len(body) : body[k] \in N}}

\* C13: the productions of cfg.remove_epsilon() are exactly, for each
\* production of cfg, the bodies got by keeping or dropping each occurrence
\* of a nullable symbol, the empty body being kept only at the start
\* symbol; no other variable has an empty production in the result.
C13_RemoveEpsilonKeepsStart ==
    call.op = "remove_epsilon" =>
        /\ Range(ret.cfg.productions) =
              UNION {{[head |-> p.head, body |-> body] :
                         body \in {x \in KeepOrDrop(p.body, Nullable(cfg)) :
                                      x # <<>> \/ p.head = cfg.start_symbol}} :
                     p \in Range(cfg.productions)}
        /\ \A p \in Range(ret.cfg.productions) :
              p.body = <<>> => p.head = cfg.start_symbol

\* What holds of remove_epsilon: the empty body is kept for no head, the
\* start symbol included, so the result has no empty production at all.
RemoveEpsilonDropsEmpty ==
    call.op = "remove_epsilon" =>
        /\ Range(ret.cfg.productions) =
              UNION {{[head |-> p.head, body |-> body] :
                         body \in KeepOrDrop(p.body, Nullable(cfg)) \ {<<>>}} :
                     p \in Range(cfg.productions)}
        /\ \A p \in Range(ret.cfg.productions) : p.body # <<>>

\* C14: to_normal_form() terminates: the rounds of remove-useless,
\* remove-epsilon, remove-useless, eliminate-unit, remove-useless reach a
\* grammar in canonical shape or without productions, also when the start
\* symbol is nullable. One round is enough: the grammar a round builds
\* needs no further round, so the level below returns at once.
C14_NormalFormTerminates ==
    call.op = "to_normal_form:running" /\ call.rounds >= 1 =>
        ~not_canonical(ret.cfg) \/ Len(ret.cfg.productions) = 0

\* C14 witness: the call has returned after a round, for a grammar whose
\* start symbol is nullable.
C14_Witness ==
    /\ call.op = "to_normal_form:returned"
    /\ call.rounds >= 1
    /\ cfg.start_symbol \in Nullable(cfg)
    /\ Len(ret.cfg.productions) > 0

\* the level-by-level run returns what to_normal_form returns
NormalFormRunAgrees ==
    call.op = "to_normal_form:returned" => ret.cfg = to_normal_form(cfg)

\* the pairs <<X, t>>: some string of symbols derivable from X begins with
\* the terminal t
RECURSIVE BeginsFrom(_, _, _)
BeginsFrom(P, N, F) ==
    LET begins(p, t) ==
            \E k \in 1..Len(p.body) :
                /\ \A j \in 1..(k - 1) : p.body[j] \in N
                /\ p.body[k] = t \/ <<p.body[k], t>> \in F
        T == UNION {{x \in Range(p.body) : isTerminal(x)} : p \in P}
        more == F \cup UNION {{<<p.head, t>> : t \in {x \in T : begins(p, x)}} :
                              p \in P}
    IN IF more = F THEN F ELSE BeginsFrom(P, N, more)

\* FIRST(X): the terminals that begin a string derivable from X, and
\* Epsilon if X derives the empty string
First(g, X) ==
    LET F == BeginsFrom(Range(g.productions), Nullable(g), {})
    IN {t \in g.terminals : <<X, t>> \in F}
       \cup (IF X \in Nullable(g) THEN {Epsilon} ELSE {})

\* C15: get_first_set() maps every variable X that derives a terminal
\* string to the terminals that begin a string derivable from X, with
\* Epsilon if and only if X is in get_nullable_symbols(); it maps every
\* terminal t to {t}.
C15_FirstSetExact ==
    call.op = "get_first_set" =>
        /\ \A X \in cfg.variables \cap Generating(cfg) :
              /\ X \in DOMAIN ret.sets
              /\ ret.sets[X] = First(cfg, X)
              /\ (Epsilon \in ret.sets[X]) = (X \in get_nullable_symbols(cfg))
        /\ \A t \in cfg.terminals :
              t \in DOMAIN ret.sets /\ ret.sets[t] = {t}

\* C15 witness: the start symbol gets a terminal from its second body
\* component, the first one being nullable.
C15_Witness ==
    /\ call.op = "get_first_set"
    /\ Production(S, <<A, B>>) \in Range(cfg.productions)
    /\ Epsilon \in dict_get(ret.sets, A)
    /\ b \in dict_get(ret.sets, S)

\* FIRST of a string of symbols, without Epsilon: the terminals that begin
\* a string derivable from it
FirstOfString(g, beta) ==
    UNION {IF isTerminal(beta[k]) THEN {beta[k]}
           ELSE First(g, beta[k]) \ {Epsilon} :
           k \in {m \in 1..Len(beta) :
                      \A j \in 1..(m - 1) : beta[j] \in Nullable(g)}}

\* C16: the result of get_follow_set() has "$" in FOLLOW(S); for every
\* production X -> alpha Y beta, FIRST(beta) without Epsilon is contained
\* in FOLLOW(Y) and, if every symbol of beta is nullable or beta is empty,
\* FOLLOW(X) is contained in FOLLOW(Y); no FOLLOW set contains Epsilon.
C16_FollowClosure ==
    call.op = "get_follow_set" =>
        /\ EndMarker \in dict_get(ret.sets, cfg.start_symbol)
        /\ \A p \in Range(cfg.productions) : \A i \in 1..Len(p.body) :
              LET beta == body_after(p.body, i)
              IN /\ FirstOfString(cfg, beta)
                        \subseteq dict_get(ret.sets, p.body[i])
                 /\ (\A k \in 1..Len(beta) : beta[k] \in Nullable(cfg)) =>
                        dict_get(ret.sets, p.head)
                            \subseteq dict_get(ret.sets, p.body[i])
        /\ \A X \in DOMAIN ret.sets : Epsilon \notin ret.sets[X]

\* C16 witness: in S -> A B A with A nullable, FOLLOW(B) has got a from
\* FIRST(A) and "$" from FOLLOW(S).
C16_Witness ==
    /\ call.op = "get_follow_set"
    /\ Production(S, <<A, B, A>>) \in Range(cfg.productions)
    /\ A \in Nullable(cfg)
    /\ {a, EndMarker} \subseteq dict_get(ret.sets, B)

\* C17: on one grammar object, after any sequence of calls to
\* get_generating_symbols, get_nullable_symbols, generate_epsilon and
\* to_normal_form, each of the first three returns what it returns as the
\* first call on a new equal grammar (so two calls return equal values).
C17_CachesConsistent ==
    call.reuse =>
        /\ call.op = "get_generating_symbols" =>
               ret.symbols = get_generating_symbols(cfg)
        /\ call.op = "get_nullable_symbols" =>
               ret.symbols = get_nullable_symbols(cfg)
        /\ call.op = "generate_epsilon" =>
               ret.bool = generate_epsilon(cfg)

\* C17 witness: generate_epsilon has found the start symbol through the
\* counters that the runs for the generating and for the nullable symbols
\* had counted down before it.
C17_Witness ==
    /\ call.reuse
    /\ call.op = "generate_epsilon"
    /\ {"_generating_symbols", "_nullable_symbols"} \subseteq self.not_none
    /\ Production(cfg.start_symbol, <<>>) \notin Range(cfg.productions)
    /\ ret.bool

\* the calls that take a grammar as argument
TakesGrammar == {"substitute", "union", "concatenate"}

WellFormed(g) ==
    /\ \A p \in Range(g.productions) :
          /\ p.head \in g.variables
          /\ \A k \in 1..Len(p.body) :
                /\ isTerminal(p.body[k]) => p.body[k] \in g.terminals
                /\ isVariable(p.body[k]) => p.body[k] \in g.variables
    /\ g.start_symbol # None => g.start_symbol \in g.variables
    /\ \A v \in g.variables : isVariable(v)
    /\ \A t \in g.terminals : isTerminal(t)
    /\ g.variables \cap g.terminals = {}

\* C19: every grammar produced by the constructor or returned by a
\* transformation has the head of every production in variables, every
\* terminal of a body in terminals, every variable of a body in variables,
\* the start symbol (when given) in variables, only variables in variables,
\* only terminals in terminals, and the two sets disjoint.
C19_ConstructorInvariants ==
    WellFormed(cfg) /\ WellFormed(ret.cfg)

\* the same for the grammars made of filtered productions, the bodies of
\* which carry no Epsilon, and for what the transformations return on them
WellFormedWhenFiltered ==
    (\A p \in Range(cfg.productions) : Epsilon \notin Range(p.body)) =>
        WellFormed(cfg) /\ WellFormed(ret.cfg)

\* the labels and the boxes of rsa agree: every label has a box, every box
\* is stored under its own label, which is a label of rsa, and there are
\* as many boxes as labels
OneBoxPerLabel ==
    /\ \A l \in rsa.labels : get_box(rsa, l) # NoBox
    /\ \A l \in DOMAIN rsa.boxes : rsa.boxes[l].label = l /\ l \in rsa.labels
    /\ get_number_of_boxes(rsa) = Cardinality(rsa.labels)

\* add_box for a label that has a box puts the new box in its place and
\* leaves the number of boxes as it was
AddBoxReplaces ==
    call'.op = "add_box" /\ rsa' # rsa /\ call'.box.label \in rsa.labels =>
        /\ get_box(rsa', call'.box.label) = call'.box
        /\ get_number_of_boxes(rsa') = get_number_of_boxes(rsa)
        /\ rsa'.labels = rsa.labels

\* C20: in every RecursiveAutomaton that was constructed, and after any
\* sequence of add_box calls on it, the labels are the labels that have a
\* box: get_box(l) is a box for every label l, every box is stored under
\* its own label, get_number_of_boxes() is the number of labels; add_box
\* with a label that is present replaces the box of that label and does
\* not change the count.
C20_OneBoxPerLabel ==
    []OneBoxPerLabel /\ [][AddBoxReplaces]_vars

\* C20 witness: add_box has replaced the box that get_box had returned for
\* the same label, and the number of boxes is the one that
\* get_number_of_boxes had returned.
C20_Witness ==
    /\ call.op = "add_box"
    /\ ret.box # NoBox
    /\ ret.box.label = call.box.label
    /\ ret.box # call.box
    /\ get_box(rsa, call.box.label) = call.box
    /\ ret.number >= 2
    /\ ret.number = get_number_of_boxes(rsa)

\* the labels the constructor was asked for: the declared labels and the
\* initial label when one was given
Declared ==
    {to_symbol(x) : x \in call.labels}
    \cup (IF call.label # NoLabel THEN {to_symbol(call.label)} ELSE {})

\* the constructor raises ValueError exactly when a label it was asked for
\* is the label of none of the given boxes
ConstructorRaises ==
    call.op = "RecursiveAutomaton" =>
        (ret.raised = "ValueError"
            <=> \E l \in Declared : \A box \in call.boxes : box.label # l)

\* from_cfg raises ValueError on a grammar whose start symbol is the head of
\* no production, and returns an automaton with one box per head otherwise
FromCfgRaises ==
    call.op = "from_cfg" =>
        IF call.other.start_symbol \in heads_in_text(call.other)
        THEN /\ ret.raised = "None"
             /\ rsa.labels = {to_symbol(h) : h \in heads_in_text(call.other)}
             /\ get_number_of_boxes(rsa) = Cardinality(rsa.labels)
             /\ initial_label(rsa) = to_symbol(call.other.start_symbol)
        ELSE ret.raised = "ValueError"

\* C21: RecursiveAutomaton(labels, initial_label, boxes) fails with
\* ValueError if and only if a declared label, or the given initial label,
\* has no box among the given boxes; from_cfg fails with ValueError on a
\* grammar whose start symbol is the head of no production and succeeds
\* with one box per production head otherwise.
C21_ConstructionFails == ConstructorRaises /\ FromCfgRaises

\* C22: after change_initial_label(l) has returned without error, the
\* property initial_label returns l.
C22_InitialLabelChanged ==
    call.op = "change_initial_label" /\ ret.raised = "None" =>
        initial_label(rsa) = to_symbol(call.label)

\* C23: for every negative k, get_words(k) yields the same sequence of words
\* as get_words(-1): whether it has returned or not, the generator of
\* get_words(k) has yielded the words that the generator of get_words(-1)
\* has yielded after as many passes of the loop.
C23_NegativeIsUnbounded ==
    call.op = "next(get_words)" =>
        ret.gen.yielded
            = get_words_passes(get_words_start(cfg, -1), call.rounds).yielded

\* get_words(-1) returns only when the language is finite, and then it has
\* yielded every word of the language
ReturnsWhenComplete ==
    call.op = "next(get_words)" /\ call.max_length = -1 /\ ret.gen.returned
    => /\ ~LanguageInfinite(cfg)
       /\ \A w \in Words : InLanguage(cfg, w) => w \in Range(ret.gen.yielded)

\* get_words(-1) on a grammar with a finite language has returned after
\* MaxPasses passes
ReturnsWhenFinite ==
    /\ call.op = "next(get_words)" /\ call.max_length = -1
    /\ ~LanguageInfinite(cfg)
    /\ call.rounds = MaxPasses \/ Len(ret.gen.yielded) > MaxYielded
    => ret.gen.returned

\* C25: on a grammar with a finite language get_words(-1) terminates and
\* has yielded every word of the language when it stops; on a grammar with
\* an infinite language the no-progress rule never fires.
C25_UnboundedEnumeration == ReturnsWhenComplete /\ ReturnsWhenFinite

\* C25 witness: the no-progress rule has ended get_words(-1) on a grammar
\* with a finite language, passes after it yielded a word of three letters.
C25_Witness ==
    /\ call.op = "next(get_words)" /\ call.max_length = -1
    /\ ret.gen.returned
    /\ call.rounds >= 5
    /\ \E w \in Range(ret.gen.yielded) : Len(w) = 3

\* the productions of the head that have a counter, in the order of their
\* counters
Counted(head) ==
    SelectSeq(cfg.productions, LAMBDA p : p.head = head /\ p.body # <<>>)

\* C24: once the tables are built, after any sequence of calls of
\* get_generating_symbols, get_nullable_symbols and generate_epsilon every
\* counter of the remaining-counter table is the body length of its
\* production, and the impact table is the one that was built.
C24_CountersRestored ==
    "_impacts" \in self.not_none =>
        /\ DOMAIN self.tables.remaining_lists
              = {p.head : p \in {q \in Range(cfg.productions) : q.body # <<>>}}
        /\ \A head \in DOMAIN self.tables.remaining_lists :
              /\ Len(self.tables.remaining_lists[head]) = Len(Counted(head))
              /\ \A k \in 1..Len(Counted(head)) :
                    self.tables.remaining_lists[head][k]
                        = Len(Counted(head)[k].body)
        /\ self.tables.impacts
              = set_impacts_and_remaining_lists(cfg.productions).impacts

\* C24 witness: the three analyses have run on one object, the run for the
\* generating symbols has counted the counter of a body of two symbols or
\* more down to zero, and generate_epsilon was the last to run.
C24_Witness ==
    /\ call.reuse
    /\ call.op = "generate_epsilon"
    /\ {"_generating_symbols", "_nullable_symbols"} \subseteq self.not_none
    /\ \E p \in Range(cfg.productions) :
          /\ Len(p.body) >= 2
          /\ p.head \in self.generating_symbols
          /\ Cardinality({q \in Range(cfg.productions) : q.head = p.head}) = 1
    /\ \E p \in Range(cfg.productions) :
          Len(p.body) >= 1 /\ Range(p.body) \subseteq self.nullable_symbols

\* no two entries of the collection have the same head and the same body
NoProductionTwice(productions) ==
    \A i, j \in 1..Len(productions) :
        i < j => \/ productions[i].head # productions[j].head
                 \/ productions[i].body # productions[j].body

\* C26: the productions of the grammar returned by remove_epsilon, and of
\* the grammar returned by eliminate_unit_productions, hold no production
\* twice.
C26_NoDuplicateProductions ==
    call.op \in {"remove_epsilon", "eliminate_unit_productions"} =>
        NoProductionTwice(ret.cfg.productions)

====
